---- MODULE Spec2Model ----
(***************************************************************************)
(* State-machine model of the ApsGo Railway worker (src/worker.js, first   *)
(* script, lines 1-1400): the schedule evaluator, the threshold evaluator, *)
(* the BullMQ watering queue and the watering executor.                    *)
(*                                                                         *)
(* Time is in milliseconds, as in the source.  Every asynchronous handler  *)
(* is cut at its awaits: one action per resumption, which runs the         *)
(* synchronous code up to the next await.  A store call's transport        *)
(* outcomes (sdk, rest) are inputs of the action that resumes after it.    *)
(***************************************************************************)
EXTENDS Integers, Sequences, FiniteSets, TLC

VARIABLES
  now,                        \* ms elapsed since the worker started
  kontrol,                    \* store: /kontrol_1 (configuration document)
  data,                       \* store: /data (sensor snapshot)
  aktuator,                   \* store: /aktuator, the set of channels that are true
  history,                    \* store: /history, key -> record
  waiting,                    \* queue: jobs waiting, in the order they will be taken
  failed,                     \* queue: ids kept in the failed set
  exec,                       \* worker: one record per processor slot
  lastScheduleCheck,          \* TriggerLedger: set of job keys marked fired
  lastWateringTime,           \* pot -> Date.now() of last watering, 0 = unset
  consecutiveFirebaseErrors,  \* state client: consecutive SDK failures
  restFallbackCount,          \* state client: REST calls counted since last reset
  sched,                      \* invocations of checkScheduledWatering
  thresh,                     \* invocations of checkSensorThresholds
  calls,                      \* ghost: how often each trigger was invoked; first failed poll
  enqLog,                     \* ghost: every job the queue accepted, with its time
  events,                     \* ghost: the effects of the job taken last, in order
  runs,                       \* ghost: the ids of the jobs the worker took, in order
  client,                     \* state client: the calls in flight, and (ghost) what they did
  proc                        \* the process: where the script or shutdown() is, exit code

vars == <<now, kontrol, data, aktuator, history, waiting, failed, exec,
          lastScheduleCheck, lastWateringTime, consecutiveFirebaseErrors,
          restFallbackCount, sched, thresh, calls, enqLog, events, runs, client, proc>>

----------------------------------------------------------------------------
(* Program constants *)

concurrency == 1
sensorDebounce == 120000
SKIP_SDK_THRESHOLD == 3
RESET_THRESHOLD_AFTER == 50
sleepMs == 1000
sensorPollEvery == 5
sdkTimeout == 5000
restTimeout == 8000
defaultScheduleDurasi == 60
defaultBatasBawah == 30
defaultBatasAtas == 70
defaultThresholdDurasi == 600
thresholdPriority == 1
manualPriority == 10
manualDuration == 10
removeOnFailCount == 50
msPerMinute == 60000
minutesPerDay == 1440

(* Bounds of the model *)

MaxTime == 120000           \* the clock stops here
MaxTimeAll == 30000         \* ... when every trigger runs together
MaxTimeExec == 90000        \* ... when the store calls of the executor take time
MaxSchedChecks == 3         \* invocations of checkScheduledWatering
MaxThreshChecks == 2        \* invocations of checkSensorThresholds
MaxManual == 1              \* invocations of testSchedulerNow
SchedInvs == 2              \* invocations of checkScheduledWatering that may overlap
ThreshInvs == 2             \* invocations of checkSensorThresholds that may overlap
SlotCount == 2              \* processor slots the worker could hold
MaxSubTick == 1             \* milliseconds two readings of Date.now() in one step may differ by
ClientInvs == 2             \* calls of the state client that may overlap
MaxSince == 51              \* the count of calls since the SDK was given up stops here
MaxCaught == 1              \* uncaught errors delivered to the process
MaxTimeLife == 30000        \* horizon of the run of the whole process
MaxTimePoll == 132000       \* horizon of the run of the timed schedule polls

(* The wall clock at start: 23:59:00 of day 0, so that the window holds a   *)
(* minute change and a date change.                                         *)
StartWall == (23 * 60 + 59) * msPerMinute
CoarseStep == msPerMinute \div 2

Pots == 1..5
Slots == 1..SlotCount

DateNow(t) == StartWall + t

Min(S) == CHOOSE x \in S : \A y \in S : x <= y

----------------------------------------------------------------------------
(* Date and time keys: checkScheduledWatering, lines 609-612 *)

PadStart2(n) == IF n < 10 THEN <<0, n>> ELSE <<n \div 10, n % 10>>

MinuteOfDay(t) == (DateNow(t) \div msPerMinute) % minutesPerDay

\* `${hours padStart 2}:${minutes padStart 2}` as its four digits
CurrentTime(t) == PadStart2(MinuteOfDay(t) \div 60) \o PadStart2(MinuteOfDay(t) % 60)

\* the date key, as the number of the day
DateKey(t) == DateNow(t) \div (msPerMinute * minutesPerDay)

----------------------------------------------------------------------------
(* The configuration document /kontrol_1 and the sensor snapshot /data.     *)
(* A field the document does not hold is "missing" (a flag), 0 (a number)   *)
(* or <<>> (a time, a list): each is falsy in the source's tests.           *)

T2359 == <<2, 3, 5, 9>>
T0000 == <<0, 0, 0, 0>>

Jadwal(aktif, waktu, durasi, pots, air, pupuk) ==
  [valid |-> TRUE, aktif |-> aktif, waktu |-> waktu, durasi |-> durasi,
   pot_aktif |-> pots, pots_array |-> TRUE, pompa_air |-> air, pompa_pupuk |-> pupuk]

Threshold(aktif, bawah, atas, durasi, smart, pots, air, pupuk) ==
  [aktif |-> aktif, batas_bawah |-> bawah, batas_atas |-> atas, durasi |-> durasi,
   smart_mode |-> smart, pot_aktif |-> pots, pompa_air |-> air, pompa_pupuk |-> pupuk]

Kontrol(waktu, otomatis, jadwal, w1, d1, w2, d2, thresholds) ==
  [exists |-> TRUE, waktu |-> waktu, otomatis |-> otomatis, jadwal |-> jadwal,
   waktu_1 |-> w1, durasi_1 |-> d1, waktu_2 |-> w2, durasi_2 |-> d2,
   thresholds |-> thresholds]

J_defaults == Jadwal("missing", T2359, 0, <<1, 2, 3>>, "missing", "missing")
J_short    == Jadwal("true", T2359, 2, <<1>>, "true", "false")
J_midnight == Jadwal("true", T0000, 2, <<1, 2>>, "false", "true")
J_inactive == Jadwal("false", T2359, 2, <<4>>, "true", "false")
J_nopots   == Jadwal("true", T2359, 2, <<>>, "true", "false")
J_overlap  == Jadwal("true", T2359, 2, <<1, 2>>, "true", "false")
J_notime   == Jadwal("true", <<>>, 2, <<2>>, "true", "false")
J_notarray == [Jadwal("true", T2359, 2, <<3>>, "true", "false") EXCEPT !.pots_array = FALSE]
J_invalid  == [Jadwal("true", T2359, 2, <<5>>, "true", "false") EXCEPT !.valid = FALSE]

TH_smart == Threshold(TRUE, 30, 70, 2, TRUE, <<1, 2>>, TRUE, FALSE)
TH_fixed == Threshold(TRUE, 0, 0, 3, FALSE, <<1, 3, 5>>, FALSE, TRUE)
TH_off   == Threshold(FALSE, 30, 70, 2, FALSE, <<1>>, TRUE, FALSE)
\* no durasi field: the job takes the default of 600 s
TH_long  == Threshold(TRUE, 30, 70, 0, FALSE, <<1>>, TRUE, FALSE)

K_sched ==
  Kontrol(TRUE, FALSE,
          << [key |-> "jadwal_1", e |-> J_defaults],
             [key |-> "jadwal_2", e |-> J_midnight],
             [key |-> "jadwal_3", e |-> J_inactive] >>,
          <<>>, 0, <<>>, 0, <<>>)
K_legacy ==
  Kontrol(TRUE, FALSE,
          << [key |-> "jadwal_1", e |-> J_short],
             [key |-> "jadwal_2", e |-> J_nopots],
             [key |-> "jadwal_3", e |-> J_invalid] >>,
          T2359, 2, T0000, 0, <<>>)
\* two active entries of the same minute, with a pot in common
K_same ==
  Kontrol(TRUE, FALSE,
          << [key |-> "jadwal_1", e |-> J_short],
             [key |-> "jadwal_2", e |-> J_overlap],
             [key |-> "jadwal_3", e |-> J_inactive] >>,
          <<>>, 0, <<>>, 0, <<>>)
\* entries that the validation skips, then one without optional fields
K_skip ==
  Kontrol(TRUE, FALSE,
          << [key |-> "jadwal_1", e |-> J_inactive],
             [key |-> "jadwal_2", e |-> J_notime],
             [key |-> "jadwal_3", e |-> J_invalid],
             [key |-> "jadwal_4", e |-> J_nopots],
             [key |-> "jadwal_5", e |-> J_notarray],
             [key |-> "jadwal_6", e |-> J_defaults] >>,
          <<>>, 0, <<>>, 0, <<>>)
K_thresh ==
  Kontrol(FALSE, TRUE, << [key |-> "jadwal_1", e |-> J_short] >>, T2359, 2, <<>>, 0,
          << [key |-> "threshold_1", e |-> TH_smart],
             [key |-> "threshold_2", e |-> TH_fixed],
             [key |-> "threshold_3", e |-> TH_off] >>)
K_long ==
  Kontrol(FALSE, TRUE, <<>>, <<>>, 0, <<>>, 0, << [key |-> "threshold_1", e |-> TH_long] >>)
K_both ==
  Kontrol(TRUE, TRUE, << [key |-> "jadwal_1", e |-> J_short] >>, <<>>, 0, <<>>, 0,
          << [key |-> "threshold_1", e |-> TH_smart] >>)
K_off ==
  Kontrol(FALSE, FALSE, << [key |-> "jadwal_1", e |-> J_short] >>, T2359, 2, <<>>, 0,
          << [key |-> "threshold_1", e |-> TH_smart] >>)
K_null == [K_off EXCEPT !.exists = FALSE]
K_timeOnly == [K_both EXCEPT !.otomatis = FALSE]

Configs == {K_sched, K_legacy, K_thresh, K_both, K_off, K_null}

\* soil_N of /data: a number from 0 on; -1 for a field that is absent; -2 for a
\* value with no digits at its start ("abc", null, true); Text(n) for a string
\* of the digits of n followed by other characters ("80%")
Text(n) == 0 - 100 - n

Snapshot(s1, s2, s3, s4, s5) ==
  [exists |-> TRUE, soil |-> <<s1, s2, s3, s4, s5>>]

D_dry  == Snapshot(20, 50, 80, -1, 10)
D_wet  == Snapshot(80, 70, 90, 75, 100)
D_null == [D_wet EXCEPT !.exists = FALSE]

\* pot 1 sends text, pot 2 a number with a unit, pot 5 nothing
D_text == Snapshot(-2, Text(80), 80, 10, -1)

Snapshots == {D_dry, D_wet, D_null}

\* a parse that takes a reading it cannot read as a wet pot
ParseSoilAsWet(v) == IF v < 0 THEN 100 ELSE v

\* parseInt(x) || 0: parseInt reads the digits at the start of the string of x
\* and gives NaN when there are none
ParseSoil(v) == IF v <= Text(0) THEN 0 - v - 100 ELSE IF v < 0 THEN 0 ELSE v

----------------------------------------------------------------------------
(* Jobs *)

Job(id, type, name, pots, air, pupuk, dur, smart, atas, prio) ==
  [id |-> id, type |-> type, name |-> name, potNumbers |-> pots, pompaAir |-> air,
   pompaPupuk |-> pupuk, duration |-> dur, smartMode |-> smart, batasAtas |-> atas,
   priority |-> prio]

NoJob == Job(<<"", 0, <<>>>>, <<>>, "", <<>>, FALSE, FALSE, 0, FALSE, 0, 0)

Range(s) == {s[k] : k \in 1..Len(s)}

----------------------------------------------------------------------------
(* State client: the outcome of a call as a function of what each transport *)
(* did.  sdk, rest: TRUE when that transport answered in time.              *)

shouldSkipSDK == consecutiveFirebaseErrors >= SKIP_SDK_THRESHOLD

\* updateFirebaseSmart, setFirebaseSmart, readFirebaseSmart: TRUE when the call returns
SmartOk(sdk, rest) == IF shouldSkipSDK THEN rest ELSE sdk \/ rest

\* a fetch that never throws: it answers with the document it saw last
fetchKontrolCached(sdk, rest) ==
  [ok |-> TRUE, errors |-> consecutiveFirebaseErrors + 1, fallbacks |-> restFallbackCount]

\* fetchKontrolSmart: whether it returns, and the counters it leaves
fetchKontrolSmart(sdk, rest) ==
  IF shouldSkipSDK
  THEN IF rest
       THEN IF restFallbackCount + 1 >= RESET_THRESHOLD_AFTER
            THEN [ok |-> TRUE, errors |-> 0, fallbacks |-> 0]
            ELSE [ok |-> TRUE, errors |-> consecutiveFirebaseErrors,
                  fallbacks |-> restFallbackCount + 1]
       ELSE [ok |-> FALSE, errors |-> consecutiveFirebaseErrors,
             fallbacks |-> restFallbackCount]
  ELSE IF sdk
       THEN [ok |-> TRUE, errors |-> 0, fallbacks |-> 0]
       ELSE IF rest
            THEN [ok |-> TRUE, errors |-> consecutiveFirebaseErrors + 1,
                  fallbacks |-> restFallbackCount + 1]
            ELSE [ok |-> FALSE, errors |-> consecutiveFirebaseErrors + 1,
                  fallbacks |-> restFallbackCount]

\* a call gives up after the SDK timeout and then the REST timeout
storeTimeout == sdkTimeout + restTimeout

\* the SDK cannot have answered a call that has been out longer than its timeout
InTime(callAt, sdk) == sdk => now - callAt <= sdkTimeout

----------------------------------------------------------------------------
(* The state client call by call: fetchKontrolSmart, readFirebaseSmart,     *)
(* updateFirebaseSmart and setFirebaseSmart, each cut at its awaits.  A call *)
(* reads shouldSkipSDK once, when it starts.  Only fetchKontrolSmart writes  *)
(* the two counters.                                                         *)

Ops == {"fetch", "read", "update", "set"}

IdleCall == [pc |-> "idle", op |-> "none", skip |-> FALSE]

NoCall == [op |-> "none", skip |-> FALSE, tried |-> <<>>, result |-> "none"]

\* ghost: the call that returned or threw last, with the transports it tried
Returned(k, tried, result) == [op |-> k.op, skip |-> k.skip, tried |-> tried, result |-> result]

\* ghost: the calls started since consecutiveFirebaseErrors reached the threshold
Counted(n) == IF n < MaxSince THEN n + 1 ELSE MaxSince

\* the SDK is given up: consecutiveFirebaseErrors++ takes the counter to the threshold
GivesUp(op) ==
  /\ op = "fetch"
  /\ consecutiveFirebaseErrors < SKIP_SDK_THRESHOLD
  /\ consecutiveFirebaseErrors + 1 >= SKIP_SDK_THRESHOLD

StoreUntouched ==
  UNCHANGED <<now, kontrol, data, aktuator, history, waiting, failed, exec,
              lastScheduleCheck, lastWateringTime, sched, thresh, calls, enqLog,
              events, runs, proc>>

\* a call starts: const shouldSkipSDK = ...; then the await of the first transport
CallBegin(c, op) ==
  /\ client.call[c].pc = "idle"
  /\ c = Min({x \in 1..ClientInvs : client.call[x].pc = "idle"})
  /\ client' = [client EXCEPT
       !.call[c] = [pc |-> IF shouldSkipSDK THEN "rest" ELSE "sdk", op |-> op,
                    skip |-> shouldSkipSDK],
       !.since = IF client.forced /\ shouldSkipSDK THEN Counted(@) ELSE 0,
       !.forced = @ /\ shouldSkipSDK]
  /\ UNCHANGED <<consecutiveFirebaseErrors, restFallbackCount>>
  /\ StoreUntouched

\* a call whose SDK attempt failed throws at once
SdkFailedThrows(k) == [call |-> IdleCall, last |-> Returned(k, << <<"sdk", FALSE>> >>, "throw")]

\* catch (sdkError): the call goes on to the REST request
SdkFailed(k) == [call |-> [k EXCEPT !.pc = "rest"], last |-> NoCall]

\* the SDK attempt returns, or it fails or times out
SdkReturns(c, ok) ==
  LET k == client.call[c]
  IN  /\ k.pc = "sdk"
      /\ IF ok
         THEN /\ client' = [client EXCEPT !.call[c] = IdleCall,
                                          !.last = Returned(k, << <<"sdk", TRUE>> >>, "ok")]
              /\ consecutiveFirebaseErrors' =
                   IF k.op = "fetch" THEN 0 ELSE consecutiveFirebaseErrors
              /\ restFallbackCount' = IF k.op = "fetch" THEN 0 ELSE restFallbackCount
         ELSE /\ client' = [client EXCEPT
                   !.call[c] = SdkFailed(k).call,
                   !.last = IF SdkFailed(k).last = NoCall THEN @ ELSE SdkFailed(k).last,
                   !.forced = @ \/ GivesUp(k.op),
                   !.since = IF GivesUp(k.op) THEN 0 ELSE @]
              /\ consecutiveFirebaseErrors' =
                   IF k.op = "fetch" THEN consecutiveFirebaseErrors + 1
                   ELSE consecutiveFirebaseErrors
              /\ UNCHANGED restFallbackCount
      /\ StoreUntouched

\* the transports a call that is at its REST request has tried
TriedWith(k, ok) ==
  IF k.skip THEN << <<"rest", ok>> >> ELSE << <<"sdk", FALSE>>, <<"rest", ok>> >>

\* the REST request returns, or it fails or times out
RestReturns(c, ok) ==
  LET k == client.call[c]
      counted == restFallbackCount + 1
  IN  /\ k.pc = "rest"
      /\ client' = [client EXCEPT
           !.call[c] = IdleCall,
           !.last = Returned(k, TriedWith(k, ok), IF ok THEN "ok" ELSE "throw")]
      /\ IF k.op = "fetch" /\ ok
         THEN IF k.skip /\ counted >= RESET_THRESHOLD_AFTER
              THEN /\ consecutiveFirebaseErrors' = 0
                   /\ restFallbackCount' = 0
              ELSE /\ restFallbackCount' = counted
                   /\ UNCHANGED consecutiveFirebaseErrors
         ELSE UNCHANGED <<consecutiveFirebaseErrors, restFallbackCount>>
      /\ StoreUntouched

StateClient(ops) ==
  \E c \in 1..ClientInvs :
    \/ \E op \in ops : CallBegin(c, op)
    \/ \E ok \in BOOLEAN : SdkReturns(c, ok)
    \/ \E ok \in BOOLEAN : RestReturns(c, ok)

----------------------------------------------------------------------------
(* The watering queue (BullMQ Queue "watering") *)

Busy == {s \in Slots : exec[s].pc # "idle"}

QueueIds ==
  {waiting[k].id : k \in 1..Len(waiting)} \cup {exec[s].job.id : s \in Busy}
    \cup Range(failed)

\* a job without priority (0) is taken before every job with one; among jobs
\* with a priority the smaller number is taken first; ties in arrival order
TakenBefore(a, b) == a.priority <= b.priority

InsertAt(q, k, job) == SubSeq(q, 1, k) \o <<job>> \o SubSeq(q, k + 1, Len(q))

QueueInsert(q, job) ==
  InsertAt(q, Cardinality({k \in 1..Len(q) : TakenBefore(q[k], job)}), job)

\* a queue that takes every job it is given
AcceptsAlways(job) == TRUE

\* wateringQueue.add(name, data, {jobId, ...}): a job whose id the queue holds is ignored
Accepts(job) == job.id \notin QueueIds

\* ghost: the record of an accepted job: when, and the how-manieth with its id
Accepted(job) ==
  [job |-> job, at |-> now, nth |-> 1 + Cardinality({a \in enqLog : a.job.id = job.id})]

QueueAdd(job) ==
  IF Accepts(job)
  THEN /\ waiting' = QueueInsert(waiting, job)
       /\ enqLog' = enqLog \cup {Accepted(job)}
  ELSE UNCHANGED <<waiting, enqLog>>

KeepLast(q, n) == IF Len(q) > n THEN SubSeq(q, Len(q) - n + 1, Len(q)) ELSE q

----------------------------------------------------------------------------
(* The watering executor: the processor of wateringWorker *)

IdleExec ==
  [pc |-> "idle", job |-> NoJob, updates |-> {}, startTime |-> 0, wake |-> 0,
   callAt |-> 0, logT |-> 0, offAt |-> 0, reached |-> FALSE, isOn |-> FALSE,
   error |-> "none"]

StoreCallPcs == {"turnOn", "smartRead", "turnOff", "logRead", "logSet", "safety"}

\* a valve for every pot number, whatever it is
UpdatesAnyPot(job) ==
  (IF job.pompaAir THEN {1} ELSE {}) \cup (IF job.pompaPupuk THEN {2} ELSE {})
    \cup {pot + 2 : pot \in Range(job.potNumbers)}

\* updates: mosvet_1 = pump water, mosvet_2 = pump fertilizer, pot N -> mosvet_(N+2)
Updates(job) ==
  (IF job.pompaAir THEN {1} ELSE {}) \cup (IF job.pompaPupuk THEN {2} ELSE {})
    \cup {pot + 2 : pot \in {q \in Range(job.potNumbers) : q >= 1 /\ q <= 5}}

\* smartMode && sensorData && sensorData.batasAtas
IsSmart(job) == job.smartMode /\ job.batasAtas # 0

maxDuration(job) == job.duration * 1000

Soil(pot) == IF pot \in Pots THEN ParseSoil(data.soil[pot]) ELSE 0

\* a loop that stops when one pot has reached the target
anyReached(job) == \E pot \in Range(job.potNumbers) : Soil(pot) >= job.batasAtas

\* lines 194-206: allReached stays true only if every pot of the job reads >= targetSoil
allReached(job) == \A pot \in Range(job.potNumbers) : Soil(pot) >= job.batasAtas

\* the head of the wait loop, reached at time t: poll, sleep, or leave and turn off
SmartLoop(e, t) ==
  IF t - e.startTime < maxDuration(e.job)
  THEN IF ((t - e.startTime) \div 1000) % sensorPollEvery = 0
       THEN [e EXCEPT !.pc = "smartRead", !.callAt = t]
       ELSE [e EXCEPT !.pc = "sleep", !.wake = t + sleepMs]
  ELSE [e EXCEPT !.pc = "turnOff", !.callAt = t, !.offAt = t]

\* a fixed wait without an end
SleepAgain(e, t) == [e EXCEPT !.pc = "sleep", !.wake = t + sleepMs]

\* a fixed wait that ends at once
NoWait(e, t) == [e EXCEPT !.pc = "turnOff", !.callAt = t, !.offAt = t]

FixedLoop(e, t) ==
  IF t < e.startTime + maxDuration(e.job)
  THEN [e EXCEPT !.pc = "sleep", !.wake = t + sleepMs]
  ELSE [e EXCEPT !.pc = "turnOff", !.callAt = t, !.offAt = t]

WaitLoop(e, t) == IF IsSmart(e.job) THEN SmartLoop(e, t) ELSE FixedLoop(e, t)

\* a Worker that takes a job whenever one of its slots is free
CanFetchAnySlot == Cardinality(Busy) < SlotCount

\* the Worker takes the next job while fewer than `concurrency` are being processed
CanFetch == Cardinality(Busy) < concurrency

\* the Worker takes jobs from its construction until wateringWorker.close() is called
WorkerOpen == proc.pc = "running"

WorkerFetch(s) ==
  /\ WorkerOpen
  /\ CanFetch
  /\ waiting # <<>>
  /\ s = Min(Slots \ Busy)
  /\ exec' = [exec EXCEPT ![s] = [IdleExec EXCEPT !.pc = "turnOn", !.job = Head(waiting),
                                                  !.updates = Updates(Head(waiting)),
                                                  !.callAt = now]]
  /\ waiting' = Tail(waiting)
  /\ events' = << <<"start", Head(waiting).id>> >>
  /\ runs' = Append(runs, Head(waiting).id)
  /\ UNCHANGED <<now, client, proc, kontrol, data, aktuator, history, failed, lastScheduleCheck,
                 lastWateringTime, consecutiveFirebaseErrors, restFallbackCount,
                 sched, thresh, calls, enqLog>>

\* await updateFirebaseSmart('aktuator', updates)
ExecTurnOn(s, sdk, rest) ==
  /\ exec[s].pc = "turnOn"
  /\ InTime(exec[s].callAt, sdk)
  /\ IF SmartOk(sdk, rest)
     THEN /\ aktuator' = aktuator \cup exec[s].updates
          /\ exec' = [exec EXCEPT ![s] = WaitLoop([@ EXCEPT !.startTime = now, !.isOn = TRUE], now)]
          /\ events' = Append(events, <<"on", exec[s].job.id>>)
     ELSE /\ exec' = [exec EXCEPT ![s].pc = "safety", ![s].callAt = now,
                                  ![s].error = "turnOn"]
          /\ UNCHANGED <<aktuator, events>>
  /\ UNCHANGED <<now, client, runs, proc, kontrol, data, history, waiting, failed, lastScheduleCheck,
                 lastWateringTime, consecutiveFirebaseErrors, restFallbackCount,
                 sched, thresh, calls, enqLog>>

\* await sleep(1000) returns
ExecSleepDone(s) ==
  /\ exec[s].pc = "sleep"
  /\ now >= exec[s].wake
  /\ exec' = [exec EXCEPT ![s] = WaitLoop(@, now)]
  /\ UNCHANGED <<now, client, runs, proc, kontrol, data, aktuator, history, waiting, failed,
                 lastScheduleCheck, lastWateringTime, consecutiveFirebaseErrors,
                 restFallbackCount, sched, thresh, calls, enqLog, events>>

\* a sensor poll whose failed read goes to the catch of the processor
SensorReadThrows(e, ok, t) ==
  IF ok
  THEN IF data.exists /\ allReached(e.job)
       THEN [e EXCEPT !.pc = "turnOff", !.callAt = t, !.offAt = t, !.reached = TRUE]
       ELSE [e EXCEPT !.pc = "sleep", !.wake = t + sleepMs]
  ELSE [e EXCEPT !.pc = "safety", !.callAt = t, !.error = "smartRead"]

\* lines 190-222: the read under its own try/catch, then break or sleep(1000)
SensorRead(e, ok, t) ==
  IF ok /\ data.exists /\ allReached(e.job)
  THEN [e EXCEPT !.pc = "turnOff", !.callAt = t, !.offAt = t, !.reached = TRUE]
  ELSE [e EXCEPT !.pc = "sleep", !.wake = t + sleepMs]

\* await readFirebaseSmart('data') inside the smart loop returns or throws
ExecSmartRead(s, sdk, rest) ==
  /\ exec[s].pc = "smartRead"
  /\ InTime(exec[s].callAt, sdk)
  /\ exec' = [exec EXCEPT ![s] = SensorRead(@, SmartOk(sdk, rest), now)]
  /\ events' = IF SmartOk(sdk, rest) THEN events
               ELSE Append(events, <<"readFailed", exec[s].job.id>>)
  /\ UNCHANGED <<now, client, runs, proc, kontrol, data, aktuator, history, waiting, failed,
                 lastScheduleCheck, lastWateringTime, consecutiveFirebaseErrors,
                 restFallbackCount, sched, thresh, calls, enqLog>>

\* a stamp that does not look at the job's pots
StampEveryPot(job, t) == [pot \in Pots |-> DateNow(t)]

\* lines 255-261: the cooldown stamp of every pot of the job, then the job returns;
\* the job was added with removeOnComplete: true, so the queue forgets it
StampPots(job, t) ==
  [pot \in Pots |-> IF pot \in Range(job.potNumbers) THEN DateNow(t)
                    ELSE lastWateringTime[pot]]

\* await updateFirebaseSmart('aktuator', offUpdates); logHistory starts
ExecTurnOff(s, sdk, rest) ==
  /\ exec[s].pc = "turnOff"
  /\ InTime(exec[s].callAt, sdk)
  /\ IF SmartOk(sdk, rest)
     THEN /\ aktuator' = aktuator \ exec[s].updates
          /\ exec' = [exec EXCEPT ![s].pc = "logRead", ![s].callAt = now, ![s].logT = now]
          /\ events' = Append(events, <<"off", exec[s].job.id>>)
     ELSE /\ exec' = [exec EXCEPT ![s].pc = "safety", ![s].callAt = now,
                                  ![s].error = "turnOff"]
          /\ UNCHANGED <<aktuator, events>>
  /\ UNCHANGED <<now, client, runs, proc, kontrol, data, history, waiting, failed, lastScheduleCheck,
                 lastWateringTime, consecutiveFirebaseErrors, restFallbackCount,
                 sched, thresh, calls, enqLog>>

\* a logHistory without its try/catch
logHistoryRethrows(ok) == ~ok

\* logHistory: its two awaits are inside try { } catch (error) { console.error }
\* (1051, 1068-1070), so no error leaves it
logHistoryThrows(ok) == FALSE

\* logHistory: await readFirebaseSmart('data'); a failure is caught in logHistory
ExecLogRead(s, sdk, rest) ==
  /\ exec[s].pc = "logRead"
  /\ InTime(exec[s].callAt, sdk)
  /\ IF SmartOk(sdk, rest)
     THEN /\ exec' = [exec EXCEPT ![s].pc = "logSet", ![s].callAt = now]
          /\ UNCHANGED <<lastWateringTime, events>>
     ELSE IF logHistoryThrows(SmartOk(sdk, rest))
     THEN /\ exec' = [exec EXCEPT ![s].pc = "safety", ![s].callAt = now,
                                  ![s].error = "logHistory"]
          /\ UNCHANGED <<lastWateringTime, events>>
     ELSE /\ lastWateringTime' = StampPots(exec[s].job, now)
          /\ exec' = [exec EXCEPT ![s] = IdleExec]
          /\ events' = Append(events, <<"completed", exec[s].job.id>>)
  /\ UNCHANGED <<now, client, runs, proc, kontrol, data, aktuator, history, waiting, failed,
                 lastScheduleCheck, consecutiveFirebaseErrors, restFallbackCount,
                 sched, thresh, calls, enqLog>>

\* history/<dateKey>/<timeKey>, both taken when logHistory started
HistoryKey(t) == <<DateKey(t), CurrentTime(t)>>

HistoryRecord(e) ==
  [key |-> HistoryKey(e.logT), type |-> e.job.type, pots |-> e.job.potNumbers,
   duration |-> e.job.duration, by |-> e.job.id]

\* set() replaces what the key held
HistorySet(h, rec) == {r \in h : r.key # rec.key} \cup {rec}

\* logHistory: await setFirebaseSmart(`history/...`, record); then lines 255-261
ExecLogSet(s, sdk, rest) ==
  /\ exec[s].pc = "logSet"
  /\ InTime(exec[s].callAt, sdk)
  /\ IF logHistoryThrows(SmartOk(sdk, rest))
     THEN /\ exec' = [exec EXCEPT ![s].pc = "safety", ![s].callAt = now,
                                  ![s].error = "logHistory"]
          /\ UNCHANGED <<history, events, lastWateringTime>>
     ELSE /\ IF SmartOk(sdk, rest)
             THEN /\ history' = HistorySet(history, HistoryRecord(exec[s]))
                  /\ events' = events \o << <<"hist", exec[s].job.id>>,
                                            <<"completed", exec[s].job.id>> >>
             ELSE /\ events' = Append(events, <<"completed", exec[s].job.id>>)
                  /\ UNCHANGED history
          /\ lastWateringTime' = StampPots(exec[s].job, now)
          /\ exec' = [exec EXCEPT ![s] = IdleExec]
  /\ UNCHANGED <<now, client, runs, proc, kontrol, data, aktuator, waiting, failed, lastScheduleCheck,
                 consecutiveFirebaseErrors, restFallbackCount, sched, thresh, calls,
                 enqLog>>

\* the five pot valves
ValveChannels == 3..7

\* a queue that gives a failed job another attempt
RetryFailed(q, job) == Append(q, job)

\* no job is added with `attempts`: a job that threw has had its only attempt
AfterFailure(q, job) == q

\* mosvet_1 .. mosvet_8
Channels == 1..8

\* catch: await updateFirebaseSmart('aktuator', all eight false), then throw error;
\* the job has one attempt, so the queue moves it to the failed set; ghost: the
\* error thrown and whether the safety write went through
ExecSafety(s, sdk, rest) ==
  /\ exec[s].pc = "safety"
  /\ InTime(exec[s].callAt, sdk)
  /\ aktuator' = IF SmartOk(sdk, rest) THEN aktuator \ Channels ELSE aktuator
  /\ failed' = KeepLast(Append(failed, exec[s].job.id), removeOnFailCount)
  /\ waiting' = AfterFailure(waiting, exec[s].job)
  /\ exec' = [exec EXCEPT ![s] = IdleExec]
  /\ events' = Append(events, <<"failed", exec[s].job.id, exec[s].error, SmartOk(sdk, rest)>>)
  /\ UNCHANGED <<now, client, runs, proc, kontrol, data, history, lastScheduleCheck,
                 lastWateringTime, consecutiveFirebaseErrors, restFallbackCount,
                 sched, thresh, calls, enqLog>>

----------------------------------------------------------------------------
(* The schedule evaluator: checkScheduledWatering.  Its sources are the     *)
(* jadwal_* entries in key order, then the legacy slots waktu_1 and waktu_2. *)

NSrc == Len(kontrol.jadwal) + 2

\* an evaluator that runs whatever its mode flag says
ModeIgnored(flag) == kontrol.exists

\* if (!kontrolConfig || !kontrolConfig.waktu) return; the same with .otomatis
ModeOn(flag) == kontrol.exists /\ flag

\* ghost: the time of the first poll cycle that a failed store read ended
NoteRead(ok) ==
  calls' = IF ~ok /\ calls.failedAt < 0 THEN [calls EXCEPT !.failedAt = now] ELSE calls

\* the instants at which the model lets a timer or a listener fire
TimerInstant == now % CoarseStep = 0

IdleSched == [pc |-> "idle", t |-> 0, idx |-> 0, addOk |-> FALSE]

\* an evaluator that takes the duration as the entry holds it
durasiAsStored(schedule) == schedule.durasi

\* const durasi = schedule.durasi || 60
durasiOrDefault(schedule) ==
  IF schedule.durasi # 0 THEN schedule.durasi ELSE defaultScheduleDurasi

\* legacy slots that use the key of the named entry of the same number
plainName(n) == IF n = 1 THEN "jadwal_1" ELSE "jadwal_2"

\* `legacy_jadwal_1_${dateKey}_...`, `legacy_jadwal_2_${dateKey}_...`
legacyName(n) == IF n = 1 THEN "legacy_jadwal_1" ELSE "legacy_jadwal_2"

\* the job a source enqueues at time t (lines 676-713, 731-752, 763-784)
SchedJob(k, t) ==
  IF k <= Len(kontrol.jadwal)
  THEN LET key == kontrol.jadwal[k].key
           schedule == kontrol.jadwal[k].e
       IN  Job(<<key, DateKey(t), CurrentTime(t)>>, <<"waktu_", key>>, key,
               schedule.pot_aktif,
               schedule.pompa_air # "false",
               schedule.pompa_pupuk = "true",
               durasiOrDefault(schedule),
               FALSE, 0, 0)
  ELSE IF k = Len(kontrol.jadwal) + 1
  THEN Job(<<legacyName(1), DateKey(t), CurrentTime(t)>>, <<"waktu_", "jadwal_1">>,
           "schedule-1", <<1, 2, 3, 4, 5>>, TRUE, TRUE,
           IF kontrol.durasi_1 # 0 THEN kontrol.durasi_1 ELSE defaultScheduleDurasi,
           FALSE, 0, 0)
  ELSE Job(<<legacyName(2), DateKey(t), CurrentTime(t)>>, <<"waktu_", "jadwal_2">>,
           "schedule-2", <<1, 2, 3, 4, 5>>, TRUE, TRUE,
           IF kontrol.durasi_2 # 0 THEN kontrol.durasi_2 ELSE defaultScheduleDurasi,
           FALSE, 0, 0)

\* an entry that is active only if it says so
isActiveIfTrue(schedule) == schedule.aktif = "true"

\* const isActive = schedule.aktif !== false
isActive(schedule) == schedule.aktif # "false"

\* the source passes the validation and its time is the current time (lines 659-686, 730, 762)
SchedMatches(k, t) ==
  IF k <= Len(kontrol.jadwal)
  THEN LET schedule == kontrol.jadwal[k].e
       IN  /\ schedule.valid
           /\ isActive(schedule)
           /\ schedule.waktu # <<>>
           /\ schedule.waktu = CurrentTime(t)
           /\ schedule.pots_array
           /\ schedule.pot_aktif # <<>>
  ELSE IF k = Len(kontrol.jadwal) + 1
  THEN kontrol.waktu_1 # <<>> /\ kontrol.waktu_1 = CurrentTime(t)
  ELSE kontrol.waktu_2 # <<>> /\ kontrol.waktu_2 = CurrentTime(t)

\* an evaluator that does not consult the ledger
LedgerIgnored(key, ledger) == TRUE

\* if (!lastScheduleCheck[jobKey])
NotFired(key, ledger) == key \notin ledger

SchedFires(k, t, ledger) == SchedMatches(k, t) /\ NotFired(SchedJob(k, t).id, ledger)

\* the first source from k on that calls wateringQueue.add, 0 when none does
SchedScan(k, t, ledger) ==
  LET firing == {m \in k..NSrc : SchedFires(m, t, ledger)}
  IN  IF firing = {} THEN 0 ELSE Min(firing)

\* a poll that never purges
KeepAll(ledger, t) == ledger

\* lines 794-799: keep the keys that hold today's date key
Cleanup(ledger, t) == {key \in ledger : key[2] = DateKey(t)}

\* run the loop from source k: stop at the next add, or finish with the cleanup
SchedContinue(i, k, t, ledger) ==
  LET m == SchedScan(k, t, ledger)
  IN  IF m = 0
      THEN /\ sched' = [sched EXCEPT ![i] = IdleSched]
           /\ lastScheduleCheck' = Cleanup(ledger, t)
      ELSE /\ sched' = [sched EXCEPT ![i] = [IdleSched EXCEPT !.pc = "add", !.t = t,
                                                               !.idx = m]]
           /\ lastScheduleCheck' = ledger

\* a timer fires: checkScheduledWatering() runs up to await fetchKontrolSmart()
SchedStart(i) ==
  /\ sched[i].pc = "idle"
  /\ i = Min({x \in 1..SchedInvs : sched[x].pc = "idle"})
  /\ calls.sched < MaxSchedChecks
  /\ TimerInstant
  /\ sched' = [sched EXCEPT ![i].pc = "fetch"]
  /\ calls' = [calls EXCEPT !.sched = @ + 1]
  /\ UNCHANGED <<now, client, runs, proc, kontrol, data, aktuator, history, waiting, failed, exec,
                 lastScheduleCheck, lastWateringTime, consecutiveFirebaseErrors,
                 restFallbackCount, thresh, enqLog, events>>

\* fetchKontrolSmart() returns or throws; lines 603-652, then the loop to its first add
SchedFetch(i, sdk, rest) ==
  /\ sched[i].pc = "fetch"
  /\ consecutiveFirebaseErrors' = fetchKontrolSmart(sdk, rest).errors
  /\ restFallbackCount' = fetchKontrolSmart(sdk, rest).fallbacks
  /\ IF fetchKontrolSmart(sdk, rest).ok /\ ModeOn(kontrol.waktu)
     THEN SchedContinue(i, 1, now, lastScheduleCheck)
     ELSE /\ sched' = [sched EXCEPT ![i] = IdleSched]
          /\ UNCHANGED lastScheduleCheck
  /\ NoteRead(fetchKontrolSmart(sdk, rest).ok)
  /\ UNCHANGED <<now, client, runs, proc, kontrol, data, aktuator, history, waiting, failed, exec,
                 lastWateringTime, thresh, enqLog, events>>

\* the queue processes the add (ok) or the add fails
SchedAddApply(i, ok) ==
  /\ sched[i].pc = "add"
  /\ IF ok THEN QueueAdd(SchedJob(sched[i].idx, sched[i].t))
           ELSE UNCHANGED <<waiting, enqLog>>
  /\ sched' = [sched EXCEPT ![i].pc = "addReply", ![i].addOk = ok]
  /\ UNCHANGED <<now, client, runs, proc, kontrol, data, aktuator, history, failed, exec,
                 lastScheduleCheck, lastWateringTime, consecutiveFirebaseErrors,
                 restFallbackCount, thresh, calls, events>>

\* an add whose throw ends the loop
LeaveLoop(k) == NSrc + 1

\* catch (queueError) inside the body of the loop: the next entry is looked at
NextSource(k) == k + 1

\* an evaluator that marks the key whatever the add did
MarkedAnyway(ledger, key, ok) == ledger \cup {key}

\* lastScheduleCheck[jobKey] = true, the statement after the awaited add in the try block
Marked(ledger, key, ok) == IF ok THEN ledger \cup {key} ELSE ledger

\* await wateringQueue.add(...) returns (mark the key) or throws (caught, logged)
SchedAddDone(i) ==
  /\ sched[i].pc = "addReply"
  /\ SchedContinue(i, IF sched[i].addOk THEN sched[i].idx + 1 ELSE NextSource(sched[i].idx),
                   sched[i].t,
                   Marked(lastScheduleCheck, SchedJob(sched[i].idx, sched[i].t).id,
                          sched[i].addOk))
  /\ UNCHANGED <<now, client, runs, proc, kontrol, data, aktuator, history, waiting, failed, exec,
                 lastWateringTime, consecutiveFirebaseErrors, restFallbackCount,
                 thresh, calls, enqLog, events>>

----------------------------------------------------------------------------
(* The threshold evaluator: checkSensorThresholds *)

IdleThresh == [pc |-> "idle", idx |-> 0, addOk |-> FALSE, job |-> NoJob]

batasBawah(threshold) ==
  IF threshold.batas_bawah # 0 THEN threshold.batas_bawah ELSE defaultBatasBawah
batasAtas(threshold) ==
  IF threshold.batas_atas # 0 THEN threshold.batas_atas ELSE defaultBatasAtas

\* an evaluator without the debounce
NeverCooling(pot, t, lwt) == FALSE

\* Debounce: lastTime && Date.now() - lastTime < config.worker.sensorDebounce
CoolingDown(pot, t, lwt) == lwt[pot] # 0 /\ DateNow(t) - lwt[pot] < sensorDebounce

\* an evaluator that waters every pot still under the upper bound
NeedsWaterBelowTarget(threshold, pot, t, lwt) ==
  /\ pot >= 1 /\ pot <= 5
  /\ ~(Soil(pot) >= batasAtas(threshold))
  /\ ~CoolingDown(pot, t, lwt)

\* lines 913-951: the pot is pushed to potsNeedWatering
NeedsWater(threshold, pot, t, lwt) ==
  /\ pot >= 1 /\ pot <= 5
  /\ ~(Soil(pot) >= batasAtas(threshold))
  /\ Soil(pot) < batasBawah(threshold)
  /\ ~CoolingDown(pot, t, lwt)

\* a job that covers every pot of its entry
potAktifAll(threshold, t, lwt) == threshold.pot_aktif

\* lines 908-951: potsNeedWatering.push(potNumber) for each pot of pot_aktif in turn
potsNeedWatering(threshold, t, lwt) ==
  LET Need(pot) == NeedsWater(threshold, pot, t, lwt)
  IN  SelectSeq(threshold.pot_aktif, Need)

\* lines 961-985; ms: the milliseconds by which this Date.now() is past the step
\* of the clock (two calls within one step may or may not read the same value)
ThreshJob(k, t, ms, lwt) ==
  LET key == kontrol.thresholds[k].key
      threshold == kontrol.thresholds[k].e
  IN  Job(<<key, DateNow(t) + ms, <<>>>>, <<"sensor_threshold">>, key,
          potsNeedWatering(threshold, t, lwt), threshold.pompa_air, threshold.pompa_pupuk,
          IF threshold.durasi # 0 THEN threshold.durasi ELSE defaultThresholdDurasi,
          threshold.smart_mode, batasAtas(threshold), thresholdPriority)

ThreshFires(k, t, lwt) ==
  /\ kontrol.thresholds[k].e.aktif
  /\ potsNeedWatering(kontrol.thresholds[k].e, t, lwt) # <<>>

ThreshScan(k, t, lwt) ==
  LET firing == {m \in k..Len(kontrol.thresholds) : ThreshFires(m, t, lwt)}
  IN  IF firing = {} THEN 0 ELSE Min(firing)

\* run the loop from threshold k: stop at the next add, or return
ThreshContinue(j, k, t, ms, lwt) ==
  LET m == ThreshScan(k, t, lwt)
  IN  thresh' = [thresh EXCEPT ![j] =
        IF m = 0 THEN IdleThresh
        ELSE [IdleThresh EXCEPT !.pc = "add", !.idx = m, !.job = ThreshJob(m, t, ms, lwt)]]

\* the 30 s timer or the /data listener fires: up to await readFirebaseSmart('data')
ThreshStart(j) ==
  /\ thresh[j].pc = "idle"
  /\ j = Min({x \in 1..ThreshInvs : thresh[x].pc = "idle"})
  /\ calls.thresh < MaxThreshChecks
  /\ TimerInstant
  /\ thresh' = [thresh EXCEPT ![j].pc = "read"]
  /\ calls' = [calls EXCEPT !.thresh = @ + 1]
  /\ UNCHANGED <<now, client, runs, proc, kontrol, data, aktuator, history, waiting, failed, exec,
                 lastScheduleCheck, lastWateringTime, consecutiveFirebaseErrors,
                 restFallbackCount, sched, enqLog, events>>

\* readFirebaseSmart('data') returns or throws; up to await fetchKontrolSmart()
ThreshRead(j, sdk, rest) ==
  /\ thresh[j].pc = "read"
  /\ thresh' = [thresh EXCEPT ![j] =
       IF SmartOk(sdk, rest) /\ data.exists
       THEN [IdleThresh EXCEPT !.pc = "fetch"]
       ELSE IdleThresh]
  /\ NoteRead(SmartOk(sdk, rest))
  /\ UNCHANGED <<now, client, runs, proc, kontrol, data, aktuator, history, waiting, failed, exec,
                 lastScheduleCheck, lastWateringTime, consecutiveFirebaseErrors,
                 restFallbackCount, sched, enqLog, events>>

\* fetchKontrolSmart() returns or throws; lines 862-885, then the loop to its first add
ThreshFetch(j, sdk, rest, ms) ==
  /\ thresh[j].pc = "fetch"
  /\ consecutiveFirebaseErrors' = fetchKontrolSmart(sdk, rest).errors
  /\ restFallbackCount' = fetchKontrolSmart(sdk, rest).fallbacks
  /\ IF fetchKontrolSmart(sdk, rest).ok /\ ModeOn(kontrol.otomatis)
     THEN ThreshContinue(j, 1, now, ms, lastWateringTime)
     ELSE thresh' = [thresh EXCEPT ![j] = IdleThresh]
  /\ NoteRead(fetchKontrolSmart(sdk, rest).ok)
  /\ UNCHANGED <<now, client, runs, proc, kontrol, data, aktuator, history, waiting, failed, exec,
                 lastScheduleCheck, lastWateringTime, sched, enqLog, events>>

\* the queue processes the add (ok) or the add fails
ThreshAddApply(j, ok) ==
  /\ thresh[j].pc = "add"
  /\ IF ok THEN QueueAdd(thresh[j].job) ELSE UNCHANGED <<waiting, enqLog>>
  /\ thresh' = [thresh EXCEPT ![j].pc = "addReply", ![j].addOk = ok]
  /\ UNCHANGED <<now, client, runs, proc, kontrol, data, aktuator, history, failed, exec,
                 lastScheduleCheck, lastWateringTime, consecutiveFirebaseErrors,
                 restFallbackCount, sched, calls, events>>

\* await wateringQueue.add(...) returns: lines 989-992 and the rest of the loop;
\* or it throws: the catch of line 995 ends the check
ThreshAddDone(j, ms) ==
  /\ thresh[j].pc = "addReply"
  /\ IF thresh[j].addOk
     THEN /\ lastWateringTime' = StampPots(thresh[j].job, now)
          /\ ThreshContinue(j, thresh[j].idx + 1, now, ms, StampPots(thresh[j].job, now))
     ELSE /\ thresh' = [thresh EXCEPT ![j] = IdleThresh]
          /\ UNCHANGED lastWateringTime
  /\ UNCHANGED <<now, client, runs, proc, kontrol, data, aktuator, history, waiting, failed, exec,
                 lastScheduleCheck, consecutiveFirebaseErrors, restFallbackCount,
                 sched, calls, enqLog, events>>

----------------------------------------------------------------------------
(* testSchedulerNow: a manual test job *)

ManualJob(t) ==
  Job(<<"manual-test", DateNow(t), <<>>>>, <<"manual_test">>, "manual-test", <<1>>,
      TRUE, FALSE, manualDuration, FALSE, 0, manualPriority)

ManualTest ==
  /\ calls.manual < MaxManual
  /\ TimerInstant
  /\ QueueAdd(ManualJob(now))
  /\ calls' = [calls EXCEPT !.manual = @ + 1]
  /\ UNCHANGED <<now, client, runs, proc, kontrol, data, aktuator, history, failed, exec,
                 lastScheduleCheck, lastWateringTime, consecutiveFirebaseErrors,
                 restFallbackCount, sched, thresh, events>>

----------------------------------------------------------------------------
(* Time.  A queue add takes less than one step of the clock, a free worker *)
(* takes a waiting job within the step, and a sleep ends when it is due.   *)
(* TickPunctual lets every store call answer at once; TickLatency lets a   *)
(* store call of the executor take one of the times of Latencies.          *)

AddInFlight ==
  \/ \E i \in 1..SchedInvs : sched[i].pc \in {"add", "addReply"}
  \/ \E j \in 1..ThreshInvs : thresh[j].pc \in {"add", "addReply"}

CallPending ==
  \/ \E s \in Busy : exec[s].pc \in StoreCallPcs
  \/ \E i \in 1..SchedInvs : sched[i].pc # "idle"
  \/ \E j \in 1..ThreshInvs : thresh[j].pc # "idle"

\* a free worker is waiting on the queue and takes a job as soon as one is there
WorkerReady == WorkerOpen /\ CanFetch /\ waiting # <<>>

NextBoundary(t) == (t \div CoarseStep + 1) * CoarseStep

\* a store call answers at once, after one second, when the SDK call has timed
\* out, or when the REST call has timed out as well
Latencies == {sleepMs, sdkTimeout, storeTimeout}

SleepTargets == {exec[s].wake : s \in {x \in Busy : exec[x].pc = "sleep"}}

CallTargets ==
  {exec[s].callAt + d :
     s \in {x \in Busy : exec[x].pc \in StoreCallPcs /\ exec[x].callAt = now},
     d \in Latencies}

Advance(t, horizon) ==
  /\ t > now
  /\ t <= horizon
  /\ ~AddInFlight
  /\ ~WorkerReady
  /\ \A s \in Busy : exec[s].pc = "sleep" => exec[s].wake >= t
  /\ now' = t
  /\ UNCHANGED <<client, runs, proc, kontrol, data, aktuator, history, waiting, failed, exec,
                 lastScheduleCheck, lastWateringTime, consecutiveFirebaseErrors,
                 restFallbackCount, sched, thresh, calls, enqLog, events>>

TickPunctual(horizon) ==
  /\ ~CallPending
  /\ \E t \in {NextBoundary(now)} \cup SleepTargets : Advance(t, horizon)

TickLatency(horizon) ==
  \E t \in {NextBoundary(now)} \cup SleepTargets \cup CallTargets :
    /\ \A s \in Busy : exec[s].pc \in StoreCallPcs => t <= exec[s].callAt + storeTimeout
    /\ Advance(t, horizon)

----------------------------------------------------------------------------
(* The process: the start of the script (lines 78-131), shutdown()         *)
(* (1289-1313) and the handlers of uncaught errors (1315-1331)             *)

requiredEnvs ==
  {"FIREBASE_PROJECT_ID", "FIREBASE_CLIENT_EMAIL", "FIREBASE_PRIVATE_KEY",
   "FIREBASE_DATABASE_URL"}

\* the script is about to validate its environment; env: the variables that are set
Launched(env) ==
  [pc |-> "validate", env |-> env, built |-> FALSE, signal |-> "none", code |-> -1,
   threw |-> "none", caught |-> 0]

\* the script has run to its end: queue, worker, timers and handlers exist
Started == [Launched(requiredEnvs) EXCEPT !.pc = "running", !.built = TRUE]

\* process.exit(code)
Exit(p, code) == [p EXCEPT !.pc = "exited", !.code = code]

\* a validation that looks at the first variable only
missingFirstEnv(env) == {"FIREBASE_PROJECT_ID"} \ env

\* requiredEnvs.filter(env => !process.env[env])
missingEnvs(env) == requiredEnvs \ env

ProgramUntouched ==
  UNCHANGED <<now, kontrol, data, aktuator, history, waiting, failed, exec,
              lastScheduleCheck, lastWateringTime, consecutiveFirebaseErrors,
              restFallbackCount, sched, thresh, calls, enqLog, events, runs, client>>

\* lines 80-98: if (missingEnvs.length > 0) process.exit(1)
ValidateEnv ==
  /\ proc.pc = "validate"
  /\ proc' = IF missingEnvs(proc.env) # {} THEN Exit(proc, 1)
             ELSE [proc EXCEPT !.pc = "construct"]
  /\ ProgramUntouched

\* lines 102-1400: admin.initializeApp in its try/catch (exit 1 when it throws), then
\* the queue, the worker, the timers of the evaluators and the process handlers
Construct(ok) ==
  /\ proc.pc = "construct"
  /\ proc' = IF ok THEN [proc EXCEPT !.pc = "running", !.built = TRUE]
             ELSE Exit(proc, 1)
  /\ ProgramUntouched

\* the awaits of shutdown(), in order
ShutdownPcs == <<"closeWorker", "closeQueue", "redisQuit", "appDelete">>

Closing == proc.pc \in Range(ShutdownPcs)

\* from the end of the script to process.exit the timers and the processor go on
Alive == proc.pc = "running" \/ Closing

\* wateringQueue.add works until wateringQueue.close()
QueueOpen == proc.pc \in {"running", "closeWorker", "closeQueue"}

\* process.on('SIGTERM', shutdown), process.on('SIGINT', shutdown): shutdown() up
\* to await wateringWorker.close().  One signal is delivered.
Signal(sig) ==
  /\ proc.pc = "running"
  /\ proc' = [proc EXCEPT !.pc = "closeWorker", !.signal = sig]
  /\ ProgramUntouched

\* an await of shutdown() returns (ok) or throws: the next close, process.exit(0)
\* after the last, process.exit(1) in the catch.  wateringWorker.close() returns
\* when the job being processed has ended.
ShutdownStep(ok) ==
  /\ Closing
  /\ (ok /\ proc.pc = "closeWorker") => Busy = {}
  /\ proc' = IF ~ok THEN [Exit(proc, 1) EXCEPT !.threw = proc.pc]
             ELSE IF proc.pc = "appDelete" THEN Exit(proc, 0)
             ELSE [proc EXCEPT !.pc =
                     ShutdownPcs[1 + CHOOSE n \in 1..3 : ShutdownPcs[n] = proc.pc]]
  /\ ProgramUntouched

\* Node without a handler: the error ends the process with code 1
crash(p) == Exit(p, 1)

\* process.on('uncaughtException', ...): logs, "Don't exit"
uncaughtException(p) == [p EXCEPT !.caught = @ + 1]

\* process.on('unhandledRejection', ...): logs, "Don't exit"
unhandledRejection(p) == [p EXCEPT !.caught = @ + 1]

\* an error escapes a callback, or a promise is rejected with no handler
Uncaught ==
  /\ Alive
  /\ proc.caught < MaxCaught
  /\ \/ proc' = uncaughtException(proc)
     \/ proc' = unhandledRejection(proc)
  /\ ProgramUntouched

----------------------------------------------------------------------------

\* the worker has just started: nothing fired, every channel off, and in the queue
\* what it held when the worker started
BootAt(configs, snapshots, queues, procs) ==
  /\ now = 0
  /\ proc \in procs
  /\ kontrol \in configs
  /\ data \in snapshots
  /\ aktuator = {}
  /\ history = {}
  /\ waiting \in queues
  /\ failed = <<>>
  /\ exec = [s \in Slots |-> IdleExec]
  /\ lastScheduleCheck = {}
  /\ lastWateringTime = [pot \in Pots |-> 0]
  /\ consecutiveFirebaseErrors = 0
  /\ restFallbackCount = 0
  /\ sched = [i \in 1..SchedInvs |-> IdleSched]
  /\ thresh = [j \in 1..ThreshInvs |-> IdleThresh]
  /\ calls = [sched |-> 0, thresh |-> 0, manual |-> 0, failedAt |-> -1]
  /\ enqLog = {}
  /\ events = <<>>
  /\ runs = <<>>
  /\ client = [call |-> [c \in 1..ClientInvs |-> IdleCall], last |-> NoCall,
               forced |-> FALSE, since |-> 0]

\* the state when the script has run to its end (line 1400)
Boot(configs, snapshots, queues) == BootAt(configs, snapshots, queues, {Started})

Init == Boot({K_both}, {D_dry}, {<<>>})

InitSched == Boot({K_sched, K_legacy, K_off, K_null}, {D_dry}, {<<>>})

InitThresh == Boot({K_thresh, K_off}, Snapshots, {<<>>})

\* what the two transports of a store call may do, as <<sdk, rest>>
AnyOutcome == BOOLEAN \X BOOLEAN
Healthy == {<<TRUE, TRUE>>}

\* the processor without the sensor poll of the smart loop
FixedExecutor ==
  \E s \in Slots :
    \/ WorkerFetch(s)
    \/ ExecSleepDone(s)
    \/ \E o \in AnyOutcome : ExecTurnOn(s, o[1], o[2])
    \/ \E o \in AnyOutcome : ExecTurnOff(s, o[1], o[2])
    \/ \E o \in AnyOutcome : ExecLogRead(s, o[1], o[2])
    \/ \E o \in AnyOutcome : ExecLogSet(s, o[1], o[2])
    \/ \E o \in AnyOutcome : ExecSafety(s, o[1], o[2])

SmartPoll == \E s \in Slots : \E o \in AnyOutcome : ExecSmartRead(s, o[1], o[2])

Executor == FixedExecutor \/ SmartPoll

ScheduleEvaluator(outcomes, addOutcomes) ==
  \E i \in 1..SchedInvs :
    \/ SchedStart(i)
    \/ \E o \in outcomes : SchedFetch(i, o[1], o[2])
    \/ \E ok \in addOutcomes : SchedAddApply(i, ok)
    \/ SchedAddDone(i)

ThresholdEvaluator(outcomes, addOutcomes, subTicks) ==
  \E j \in 1..ThreshInvs :
    \/ ThreshStart(j)
    \/ \E o \in outcomes : ThreshRead(j, o[1], o[2])
    \/ \E o \in outcomes : \E ms \in subTicks : ThreshFetch(j, o[1], o[2], ms)
    \/ \E ok \in addOutcomes : ThreshAddApply(j, ok)
    \/ \E ms \in subTicks : ThreshAddDone(j, ms)

\* every trigger together; the triggers' own store and queue calls succeed here
\* (their failures are explored by SpecSched and SpecThresh)
Next ==
  \/ Executor
  \/ ScheduleEvaluator(Healthy, {TRUE})
  \/ ThresholdEvaluator(Healthy, {TRUE}, {0})
  \/ ManualTest
  \/ TickPunctual(MaxTimeAll)

Spec == Init /\ [][Next]_vars

\* the schedule evaluator, the queue and the executor; no job of this evaluator
\* is smart, so the sensor poll has no part
NextSched == FixedExecutor \/ ScheduleEvaluator(AnyOutcome, BOOLEAN) \/ TickPunctual(MaxTime)

SpecSched == InitSched /\ [][NextSched]_vars

\* the same with several entries of one minute
InitSame == Boot({K_same}, {D_dry}, {<<>>})

SpecSame == InitSame /\ [][NextSched]_vars

\* the same with entries that do not pass the validation
InitSkip == Boot({K_skip}, {D_dry}, {<<>>})

SpecSkip == InitSkip /\ [][NextSched]_vars

\* both evaluators with store reads that may fail
NextPoll ==
  \/ Executor
  \/ ScheduleEvaluator(AnyOutcome, {TRUE})
  \/ ThresholdEvaluator(AnyOutcome, {TRUE}, {0})
  \/ TickPunctual(MaxTimeAll)

SpecPoll == Init /\ [][NextPoll]_vars

\* the threshold evaluator, the queue and the executor
NextThresh == Executor \/ ThresholdEvaluator(AnyOutcome, BOOLEAN, 0..MaxSubTick) \/ TickPunctual(MaxTime)

SpecThresh == InitThresh /\ [][NextThresh]_vars

\* the same on a snapshot with readings that are no numbers
InitText == Boot({K_thresh}, {D_text}, {<<>>})

SpecText == InitText /\ [][NextThresh]_vars

\* the threshold evaluator with checks that do not overlap (a check has
\* returned before the next timer or listener call), on a job of the default duration
OneCheckAtATime == Cardinality({j \in 1..ThreshInvs : thresh'[j].pc # "idle"}) <= 1

InitLong == Boot({K_long, K_thresh}, {D_dry}, {<<>>})

NextLong ==
  \/ Executor
  \/ ThresholdEvaluator(Healthy, {TRUE}, {0}) /\ OneCheckAtATime
  \/ TickPunctual(MaxTime)

SpecLong == InitLong /\ [][NextLong]_vars

\* The schedule polls at the instants of their timers: the script ran
\* setInterval(..., checkInterval) and setTimeout(..., 8000) at 23:58:58, two
\* seconds before the model's clock starts.
checkInterval == 60000
firstCheckDelay == 8000
IntervalFirst == 58000

\* the instant of the n-th call of checkScheduledWatering, counted from 0
DueAt(n) ==
  IF n = 0 THEN IntervalFirst - checkInterval + firstCheckDelay
  ELSE IntervalFirst + (n - 1) * checkInterval

\* a timer calls checkScheduledWatering(); it runs up to await fetchKontrolSmart()
SchedTimer(i) ==
  /\ sched[i].pc = "idle"
  /\ i = Min({x \in 1..SchedInvs : sched[x].pc = "idle"})
  /\ calls.sched < MaxSchedChecks
  /\ now = DueAt(calls.sched)
  /\ sched' = [sched EXCEPT ![i] = [IdleSched EXCEPT !.pc = "fetch", !.t = now]]
  /\ calls' = [calls EXCEPT !.sched = @ + 1]
  /\ UNCHANGED <<now, client, runs, proc, kontrol, data, aktuator, history, waiting, failed, exec,
                 lastScheduleCheck, lastWateringTime, consecutiveFirebaseErrors,
                 restFallbackCount, thresh, enqLog, events>>

\* fetchKontrolSmart() returns the document, from the SDK within its race of
\* 5 s or from REST before its abort of 8 s
SchedFetchReturns(i, sdk, rest) ==
  /\ SmartOk(sdk, rest)
  /\ InTime(sched[i].t, sdk)
  /\ now - sched[i].t <= storeTimeout
  /\ SchedFetch(i, sdk, rest)

\* the times a config fetch may take
FetchLatencies == Latencies \cup {2 * sleepMs}

\* time passes up to the next timer, the return of a fetch or the end of a sleep
TickTimed ==
  \E t \in {NextBoundary(now)} \cup SleepTargets
            \cup {DueAt(calls.sched)}
            \cup {sched[i].t + d : i \in {x \in 1..SchedInvs : sched[x].pc = "fetch"},
                                  d \in FetchLatencies} :
    /\ calls.sched < MaxSchedChecks => t <= DueAt(calls.sched)
    /\ \A i \in 1..SchedInvs : sched[i].pc = "fetch" => t <= sched[i].t + storeTimeout
    /\ \A s \in Busy : exec[s].pc \notin StoreCallPcs
    /\ Advance(t, MaxTimePoll)

InitTimed == Boot({K_sched}, {D_dry}, {<<>>})

NextTimed ==
  \/ FixedExecutor
  \/ \E i \in 1..SchedInvs :
       \/ SchedTimer(i)
       \/ \E o \in AnyOutcome : SchedFetchReturns(i, o[1], o[2])
       \/ SchedAddApply(i, TRUE)
       \/ SchedAddDone(i)
  \/ TickTimed

SpecTimed == InitTimed /\ [][NextTimed]_vars

\* the executor alone, on a queue that earlier checks have filled, with store
\* calls that take time; the sensors may have moved since the jobs were added
SmartSample ==
  Job(<<"threshold_1", DateNow(0), <<>>>>, <<"sensor_threshold">>, "threshold_1",
      <<1, 2>>, TRUE, FALSE, 2, TRUE, 70, thresholdPriority)

FixedSample ==
  Job(<<"jadwal_1", DateKey(0), CurrentTime(0)>>, <<"waktu_", "jadwal_1">>, "jadwal_1",
      <<1>>, TRUE, TRUE, 2, FALSE, 0, 0)

\* long enough for a second poll of the sensors, five seconds after the first
SmartLong == [SmartSample EXCEPT !.id = <<"threshold_2", DateNow(0), <<>>>>,
                                 !.name = "threshold_2", !.potNumbers = <<2, 4>>,
                                 !.duration = 6]

SampleQueues ==
  {<<SmartSample>>, <<FixedSample>>, <<SmartLong>>}

InitExec == Boot({K_both}, Snapshots, SampleQueues)

NextExec == Executor \/ TickLatency(MaxTimeExec)

SpecExec == InitExec /\ [][NextExec]_vars

\* the device writes a new snapshot to /data while the worker runs
SensorsRise ==
  /\ data = D_dry
  /\ data' = D_wet
  /\ UNCHANGED <<now, client, runs, proc, kontrol, aktuator, history, waiting, failed, exec,
                 lastScheduleCheck, lastWateringTime, consecutiveFirebaseErrors,
                 restFallbackCount, sched, thresh, calls, enqLog, events>>

\* a smart job one of whose pots is at the target from the start
SmartMixed == [SmartLong EXCEPT !.potNumbers = <<2, 3>>]

\* smart jobs while the soil gets wet
InitSmart == Boot({K_both}, {D_dry, D_wet}, {<<SmartMixed>>, <<SmartSample>>})

NextSmart == Executor \/ SensorsRise \/ TickLatency(MaxTimeExec)

SpecSmart == InitSmart /\ [][NextSmart]_vars

\* the state client alone, under calls of every kind
NextClient == StateClient(Ops)

SpecClient == Init /\ [][NextClient]_vars

\* the state client under config fetches that keep being issued and answered
\* (each await ends: the SDK race and the REST abort bound it), whatever the
\* transports do
NextFetch == StateClient({"fetch"})

FetchesKeepComing ==
  /\ SF_vars(\E c \in 1..ClientInvs : CallBegin(c, "fetch"))
  /\ WF_vars(\E c \in 1..ClientInvs : \E ok \in BOOLEAN : SdkReturns(c, ok))
  /\ WF_vars(\E c \in 1..ClientInvs : \E ok \in BOOLEAN : RestReturns(c, ok))

SpecFetch == Init /\ [][NextFetch]_vars /\ FetchesKeepComing

\* the executor when its awaits end: a store call is answered or times out
\* (the 5 s race, the 8 s abort), a timer that is due fires, time passes
SpecRun ==
  InitExec /\ [][NextExec]_vars /\ WF_vars(Executor) /\ WF_vars(TickLatency(MaxTimeExec))

\* both evaluators under configurations that have a mode switched off while
\* their schedule entries, legacy slots and thresholds are due
InitFlags == Boot({K_off, K_thresh, K_timeOnly}, {D_dry}, {<<>>})

SpecFlags == InitFlags /\ [][NextPoll]_vars

\* two jobs one after the other, with store calls that answer at once or fail:
\* what a job leaves behind is what the next one finds
InitFail == Boot({K_both}, {D_dry}, {<<FixedSample, SmartSample>>})

NextFail == Executor \/ TickPunctual(MaxTime)

SpecFail == InitFail /\ [][NextFail]_vars

\* a job of a schedule entry whose pot_aktif holds numbers that are no pots
OddSample ==
  [FixedSample EXCEPT !.id = <<"jadwal_2", DateKey(0), CurrentTime(0)>>,
                      !.type = <<"waktu_", "jadwal_2">>, !.name = "jadwal_2",
                      !.potNumbers = <<0, 2, 6>>, !.pompaAir = FALSE]

InitOdd == Boot({K_both}, {D_dry}, {<<FixedSample, OddSample>>, <<OddSample, SmartSample>>})

SpecOdd == InitOdd /\ [][NextFail]_vars

\* the process from its launch, with its scheduled jobs, under failing store calls
\* and queue adds
InitLife ==
  BootAt({K_both}, {D_dry}, {<<>>}, {Launched(env) : env \in SUBSET requiredEnvs})

NextLife ==
  \/ ValidateEnv
  \/ \E ok \in BOOLEAN : Construct(ok)
  \/ \E sig \in {"SIGTERM", "SIGINT"} : Signal(sig)
  \/ \E ok \in BOOLEAN : ShutdownStep(ok)
  \/ Uncaught
  \/ Alive /\ Executor
  \/ Alive /\ ScheduleEvaluator(AnyOutcome, IF QueueOpen THEN BOOLEAN ELSE {FALSE})
  \/ Alive /\ TickPunctual(MaxTimeLife)

SpecLife == InitLife /\ [][NextLife]_vars

\* The process is started again after it has exited with no job in progress:
\* the script runs from its first line, so every module variable (let
\* lastScheduleCheck = {}, const lastWateringTime = {}, the counters of the
\* state client) has its initial value; the queue in Redis and the store keep
\* what they hold.
Restart ==
  /\ proc.pc = "exited"
  /\ proc.built
  /\ Busy = {}
  /\ proc' = Started
  /\ lastScheduleCheck' = {}
  /\ lastWateringTime' = [pot \in Pots |-> 0]
  /\ consecutiveFirebaseErrors' = 0
  /\ restFallbackCount' = 0
  /\ sched' = [i \in 1..SchedInvs |-> IdleSched]
  /\ thresh' = [j \in 1..ThreshInvs |-> IdleThresh]
  /\ exec' = [s \in Slots |-> IdleExec]
  /\ UNCHANGED <<now, client, runs, kontrol, data, aktuator, history, waiting, failed,
                 calls, enqLog, events>>

\* the schedule evaluator and the processor in a process that is shut down by a
\* signal and started again
NextRestart ==
  \/ \E sig \in {"SIGTERM", "SIGINT"} : Signal(sig)
  \/ \E ok \in BOOLEAN : ShutdownStep(ok)
  \/ Restart
  \/ Alive /\ FixedExecutor
  \/ Alive /\ ScheduleEvaluator(Healthy, IF QueueOpen THEN {TRUE} ELSE {FALSE})
  \/ TickPunctual(MaxTimeExec)

SpecRestart == Init /\ [][NextRestart]_vars

----------------------------------------------------------------------------
(* Properties *)

\* C1: at any time at most one job is being executed, whatever the order of
\* schedule triggers, threshold triggers and manual enqueues.
C1_AtMostOneJobExecuting == Cardinality(Busy) <= 1

\* a job holds its channels on while two more jobs wait in the queue
C1_Witness == \E s \in Busy : exec[s].isOn /\ Len(waiting) >= 2

\* C2: once a job has completed or failed, every channel it turned on is off
\* again, whichever store writes failed on the way (the off write and the
\* safety write included).  Only jobs write the channels, so with no job in
\* progress no channel may be on.
C2_ChannelsOffAfterJob == Busy = {} => aktuator = {}

C4_PotNotInTwoJobsWithinCooldown ==
  \A a, b \in enqLog :
    (/\ a # b
     /\ a.job.type = <<"sensor_threshold">>
     /\ b.job.type = <<"sensor_threshold">>
     /\ Range(a.job.potNumbers) \cap Range(b.job.potNumbers) # {}
     /\ a.at <= b.at)
    => b.at - a.at >= sensorDebounce

\* C10: a threshold job that is queued or running has the cooldown of each of
\* its pots set already.
C10_CooldownSetWhileJobVisible ==
  \A job \in Range(waiting) \cup {exec[s].job : s \in Busy} :
    job.type = <<"sensor_threshold">>
      => \A pot \in Range(job.potNumbers) : lastWateringTime[pot] # 0

\* the processor has issued the off write of its job
OffIssued(s) == exec[s].isOn /\ exec[s].pc \in {"turnOff", "logRead", "logSet"}

\* C5: a smart job whose target is never reached issues its off write at most
\* durationSeconds after its on write returned, whatever the sensor reads of
\* the wait loop took and whether they failed.
C5_SmartOffWithinDuration ==
  \A s \in Busy :
    (IsSmart(exec[s].job) /\ OffIssued(s) /\ ~exec[s].reached)
      => exec[s].offAt - exec[s].startTime <= maxDuration(exec[s].job)

\* the places of an effect in the trace of the job taken last
Pos(kind) == {k \in 1..Len(events) : events[k][1] = kind}

HistoryOf(id) == {r \in history : r.by = id}

FixedSamples == {job \in UNION {Range(q) : q \in SampleQueues} : ~IsSmart(job)}

FetchThrew ==
  IF shouldSkipSDK
  THEN restFallbackCount' = restFallbackCount
  ELSE /\ consecutiveFirebaseErrors' = consecutiveFirebaseErrors + 1
       /\ restFallbackCount' = restFallbackCount

SchedFetchEnds(i) == sched[i].pc = "fetch" /\ sched'[i].pc # "fetch"
ThreshFetchEnds(j) == thresh[j].pc = "fetch" /\ thresh'[j].pc # "fetch"
ThreshReadEnds(j) == thresh[j].pc = "read" /\ thresh'[j].pc # "read"

\* what C6 asks of every step
PollStep ==
  /\ \A i \in 1..SchedInvs :
       (SchedFetchEnds(i) /\ FetchThrew)
         => /\ sched'[i] = IdleSched
            /\ UNCHANGED <<waiting, enqLog, exec, lastScheduleCheck, lastWateringTime>>
  /\ \A j \in 1..ThreshInvs :
       ((ThreshFetchEnds(j) /\ FetchThrew) \/ (ThreshReadEnds(j) /\ thresh'[j].pc # "fetch"))
         => /\ thresh'[j] = IdleThresh
            /\ UNCHANGED <<waiting, enqLog, exec, lastScheduleCheck, lastWateringTime>>
  /\ \A i \in 1..SchedInvs :
       (SchedFetchEnds(i) /\ ~FetchThrew /\ kontrol.exists /\ kontrol.waktu
          /\ \E k \in 1..NSrc : SchedFires(k, now, lastScheduleCheck))
         => /\ sched'[i].pc = "add"
            /\ SchedFires(sched'[i].idx, now, lastScheduleCheck)
  /\ \A j \in 1..ThreshInvs :
       (ThreshFetchEnds(j) /\ ~FetchThrew /\ kontrol.exists /\ kontrol.otomatis
          /\ \E k \in 1..Len(kontrol.thresholds) : ThreshFires(k, now, lastWateringTime))
         => thresh'[j].pc = "add"

\* C6: a poll cycle whose store read fails enqueues nothing and returns (the
\* evaluator stays in service); a cycle whose read is answered matches as
\* usual: the first matching schedule entry not yet fired goes to the queue.
C6_FailedReadEnqueuesNothing == [][PollStep]_vars

\* the first failed cycle was at the start; a schedule job was accepted from a
\* cycle 30 s later
C6_Witness ==
  /\ calls.failedAt = 0
  /\ \E a \in enqLog : a.at = CoarseStep /\ a.job.type[1] = "waktu_"

AddPending(job) ==
  \E j \in 1..ThreshInvs : thresh[j].pc \in {"add", "addReply"} /\ thresh[j].job = job

\* C9 as the specification states it: with pot 1 at 20 and pot 2 at 50 the job
\* of the entry (30, 70, pots 1 and 2) covers both pots and both cool down.
C9_JobCoversBothPots ==
  (data = D_dry /\ kontrol = K_thresh) =>
    \A a \in enqLog : a.job.name = "threshold_1" =>
      /\ a.job.potNumbers = <<1, 2>>
      /\ ~AddPending(a.job) => (lastWateringTime[1] # 0 /\ lastWateringTime[2] # 0)

\* C9, amended: the job covers pot 1 only (pot 2 is not under the lower bound);
\* the cooldown of pot 1 starts when the add has returned, that of pot 2 never;
\* and one check adds one job for the entry.
C9_JobCoversPotsBelowLowerBound ==
  (data = D_dry /\ kontrol = K_thresh) =>
    /\ \A a \in enqLog : a.job.name = "threshold_1" =>
          /\ a.job.potNumbers = <<1>>
          /\ ~AddPending(a.job) => lastWateringTime[1] # 0
    /\ lastWateringTime[2] = 0
    /\ calls.thresh = 1 => Cardinality({a \in enqLog : a.job.name = "threshold_1"}) <= 1

\* one check has run to its end and its job for threshold_1 is in the queue's record
C9_Witness ==
  /\ data = D_dry /\ kontrol = K_thresh
  /\ calls.thresh = 1
  /\ \A j \in 1..ThreshInvs : thresh[j].pc = "idle"
  /\ \E a \in enqLog : a.job.name = "threshold_1" /\ a.at = 0
  /\ lastWateringTime[1] # 0

\* the call that ended last, when it had read shouldSkipSDK as false
PrimaryPreferred(k) == k.op # "none" /\ ~k.skip

\* C11: a call of any of the four operations that starts in primary-preferred
\* mode tries the SDK first and the REST request only after the SDK attempt
\* failed or timed out, and it throws exactly when both attempts failed.
C11_PrimaryFirstThenSecondary ==
  /\ \A c \in 1..ClientInvs :
        (client.call[c].pc = "rest" /\ ~client.call[c].skip)
          => TriedWith(client.call[c], TRUE)[1] = <<"sdk", FALSE>>
  /\ PrimaryPreferred(client.last) =>
        /\ client.last.tried[1][1] = "sdk"
        /\ Len(client.last.tried) = 2 <=> ~client.last.tried[1][2]
        /\ Len(client.last.tried) = 2 => client.last.tried[2][1] = "rest"
        /\ client.last.result = "throw"
             <=> \A n \in 1..2 : n <= Len(client.last.tried) /\ ~client.last.tried[n][2]

\* an update in primary-preferred mode threw after both transports had failed
C11_Witness ==
  /\ client.last.op = "update"
  /\ ~client.last.skip
  /\ client.last.tried = << <<"sdk", FALSE>>, <<"rest", FALSE>> >>
  /\ client.last.result = "throw"

\* a call starts in the period that began when consecutiveFirebaseErrors reached 3
StartsInPeriod(c) ==
  client.forced /\ client.call[c].pc = "idle" /\ client'.call[c].pc # "idle"

\* C12: once three consecutive SDK failures are counted, the next 50 calls of
\* the state client go to REST directly and the call after those 50 tries the
\* SDK again: the n-th call started since then skips the SDK exactly when
\* n <= 50.
C12_SkipsPrimaryForFiftyCalls ==
  [][\A c \in 1..ClientInvs :
       StartsInPeriod(c) => (client'.call[c].skip <=> client.since < 50)]_vars

\* C13: with config fetches that keep being issued, a state client that has
\* given up the SDK comes to try it again, whatever the REST requests do in
\* the meantime (also when they fail).
C13_PrimaryTriedAgain ==
  shouldSkipSDK ~> (\E c \in 1..ClientInvs : client.call[c].pc = "sdk")

\* the last effect of the job taken last
LastEffect == IF events = <<>> THEN <<"none">> ELSE events[Len(events)]

\* C14 as the specification states it: when a sensor read of the smart wait has
\* failed, the processor is in its failure handler (the all-off write is under
\* way) and the job will be reported failed.
C14_ReadFailureFailsJob ==
  \A s \in Busy : LastEffect[1] = "readFailed" => exec[s].pc = "safety"

\* C14, amended: a failed sensor read is caught inside the wait loop; the job
\* keeps its channels on and goes on waiting, leaves the loop at its deadline
\* and turns off as usual; a job is reported failed only with the error of its
\* on write or of its off write.
C14_ReadFailureIsTolerated ==
  /\ \A s \in Busy :
        LastEffect[1] = "readFailed" =>
          /\ exec[s].pc \in {"sleep", "smartRead", "turnOff", "safety"}
          /\ exec[s].pc = "safety" => exec[s].error = "turnOff"
          /\ exec[s].updates \subseteq aktuator
  /\ \A k \in Pos("failed") : events[k][3] \in {"turnOn", "turnOff"}

\* a smart job has completed although a sensor read of its wait had failed
C14_Witness == Pos("readFailed") # {} /\ LastEffect[1] = "completed" /\ aktuator = {}

\* C15: a job whose on write fails has no wait phase: the processor goes
\* straight to the all-off write of its failure handler; the job is then
\* reported failed with the error of the on write, whether the all-off write
\* went through or not; and an all-off write that went through leaves none of
\* the eight channels on, also those an earlier job had left on.
C15_OnWriteFailure ==
  /\ \A s \in Busy :
        exec[s].error = "turnOn" =>
          /\ exec[s].pc = "safety"
          /\ ~exec[s].isOn
          /\ events = << <<"start", exec[s].job.id>> >>
  /\ \A k \in Pos("failed") :
        /\ events[k][3] = "turnOn" => (k = 2 /\ Len(events) = 2)
        /\ events[k][2] \in Range(failed)
        /\ (events[k][4] /\ Busy = {}) => aktuator = {}

\* the on write of the second job failed and its all-off write failed too, while
\* the first job had left its channels on
C15_Witness ==
  /\ Len(runs) = 2
  /\ LastEffect = <<"failed", SmartSample.id, "turnOn", FALSE>>
  /\ aktuator = Updates(FixedSample)

\* the queue answers the add of an invocation whose job id it holds already
SchedDuplicate(i) ==
  /\ sched[i].pc = "add" /\ sched'[i].pc = "addReply"
  /\ SchedJob(sched[i].idx, sched[i].t).id \in QueueIds

ThreshDuplicate(j) ==
  /\ thresh[j].pc = "add" /\ thresh'[j].pc = "addReply"
  /\ thresh[j].job.id \in QueueIds

SampleJobs == UNION {Range(q) : q \in SampleQueues}

Ended(job) ==
  /\ Busy = {}
  /\ job \notin Range(waiting)
  /\ \E k \in 1..Len(events) :
       events[k][1] \in {"completed", "failed"} /\ events[k][2] = job.id

FlagStep ==
  /\ ~kontrol.waktu =>
        /\ \A a \in enqLog' : a.job.type[1] # "waktu_"
        /\ sched' # sched => UNCHANGED <<waiting, lastScheduleCheck>>
  /\ ~kontrol.otomatis =>
        /\ \A a \in enqLog' : a.job.type # <<"sensor_threshold">>
        /\ thresh' # thresh => UNCHANGED <<waiting, lastWateringTime>>

\* C19: while the time mode is off no poll of the schedule evaluator adds a
\* job, for a named entry or for a legacy slot; while the sensor mode is off no
\* check of the threshold evaluator adds a job or changes a cooldown.
C19_ModeOffAddsNothing == [][FlagStep]_vars

\* both modes are off; a poll and a check have run to their end with their
\* reads answered, at a time when the entry, the legacy slot and the threshold
\* were due; the queue has accepted nothing
C19_Witness ==
  /\ kontrol = K_off
  /\ SchedMatches(1, 0) /\ SchedMatches(NSrc - 1, 0) /\ ThreshFires(1, 0, lastWateringTime)
  /\ calls.sched >= 1 /\ calls.thresh >= 1 /\ calls.failedAt = -1
  /\ \A i \in 1..SchedInvs : sched[i].pc = "idle"
  /\ \A j \in 1..ThreshInvs : thresh[j].pc = "idle"
  /\ enqLog = {}

\* the first legacy slot among the sources of the schedule evaluator
Legacy1 == Len(kontrol.jadwal) + 1

\* the add of the named entry jadwal_1 has been answered, in a poll for which
\* the first legacy slot is due and not yet fired
NamedAnswered(i) ==
  /\ sched[i].pc = "addReply" /\ sched'[i].pc # "addReply"
  /\ sched[i].idx = 1
  /\ SchedFires(Legacy1, sched[i].t, lastScheduleCheck)

\* what C20 asks of every step, for the configuration in which jadwal_1 and
\* waktu_1 are due in the same minute
LegacyStep ==
  kontrol = K_legacy =>
    /\ \A a, b \in enqLog' :
          (a.job.name = "jadwal_1" /\ b.job.name = "schedule-1") => a.job.id # b.job.id
    /\ \A a, b \in enqLog' :
          (a.job.name = b.job.name /\ a.job.id[2] = b.job.id[2]) => a = b
    /\ \A i \in 1..SchedInvs :
          NamedAnswered(i) => (sched'[i].pc = "add" /\ sched'[i].idx = Legacy1)

----------------------------------------------------------------------------
(* C21: writers of the cooldown map and of the TriggerLedger *)

\* the Threshold Evaluator resumes after an add that returned (lines 989-992)
ThreshStamps(pot) ==
  \E j \in 1..ThreshInvs :
    /\ thresh[j].pc = "addReply" /\ thresh[j].addOk
    /\ thresh'[j] # thresh[j]
    /\ pot \in Range(thresh[j].job.potNumbers)

\* the processor leaves logHistory and completes its job (lines 255-258)
ExecStamps(pot) ==
  \E s \in Slots :
    /\ exec[s].pc \in {"logRead", "logSet"}
    /\ exec'[s] = IdleExec
    /\ pot \in Range(exec[s].job.potNumbers)

LedgerStep ==
  lastScheduleCheck' # lastScheduleCheck
    => sched' # sched /\ exec' = exec /\ thresh' = thresh

OnlyEvaluatorsStep ==
  /\ LedgerStep
  /\ \A pot \in Pots :
       lastWateringTime'[pot] # lastWateringTime[pot] => ThreshStamps(pot)

CompletedJobsTooStep ==
  /\ LedgerStep
  /\ \A pot \in Pots :
       lastWateringTime'[pot] # lastWateringTime[pot]
         => ThreshStamps(pot) \/ ExecStamps(pot)

\* C21 (as stated): the cooldown map is changed only by a step of the Threshold
\* Evaluator and the TriggerLedger only by a step of the Schedule Evaluator.
C21_OnlyEvaluatorsWrite == [][OnlyEvaluatorsStep]_vars

\* C21 (amended): the TriggerLedger is changed only by a step of the Schedule
\* Evaluator; the cooldown of a pot is changed only by the Threshold Evaluator
\* after the add of a job with that pot returned, or by the Watering Executor
\* when a job with that pot completes.
C21_EvaluatorsAndCompletedJobsWrite == [][CompletedJobsTooStep]_vars

\* a pot has a cooldown stamp although no threshold check ever started
C21_Witness ==
  /\ calls.thresh = 0
  /\ \E pot \in Pots : lastWateringTime[pot] # 0

----------------------------------------------------------------------------
(* C22: what ends the process *)

ExitStep ==
  (proc.built /\ proc.pc # "exited" /\ proc'.pc = "exited")
    => (Closing /\ proc.signal \in {"SIGTERM", "SIGINT"})

\* C22: once the script has run to its end, the process exits only from
\* shutdown(), which only a SIGTERM or SIGINT starts: a failed poll of an
\* evaluator, a failed job, an uncaught exception or an unhandled rejection
\* leaves it running.
C22_ExitsOnlyBySignal == [][ExitStep]_vars

\* the process is running after an uncaught error, a failed poll and a failed job
C22_Witness ==
  /\ proc.pc = "running"
  /\ proc.caught > 0
  /\ calls.failedAt >= 0
  /\ failed # <<>>

----------------------------------------------------------------------------
(* C23: exit codes *)

\* nothing of the program has been created or has run
NothingBuilt ==
  /\ ~proc.built
  /\ now = 0 /\ waiting = <<>> /\ enqLog = {} /\ runs = <<>>
  /\ calls = [sched |-> 0, thresh |-> 0, manual |-> 0, failedAt |-> -1]

StartupExit ==
  (proc.pc = "exited" /\ requiredEnvs \ proc.env # {})
    => (proc.code = 1 /\ NothingBuilt)

\* C23 (as stated): with a required variable missing the process exits with code 1
\* before anything is created, and a shutdown started by a signal exits with code 0.
C23_ExitCodes ==
  /\ StartupExit
  /\ (proc.pc = "exited" /\ proc.signal # "none") => proc.code = 0

\* C23 (amended): with a required variable missing the process exits with code 1
\* before anything is created; a shutdown started by a signal exits with code 0
\* when its four closes returned and with code 1 when one of them threw.
C23_ExitCodesOfShutdown ==
  /\ StartupExit
  /\ (proc.pc = "exited" /\ proc.signal # "none")
       => proc.code = (IF proc.threw = "none" THEN 0 ELSE 1)

\* a shutdown started by SIGINT has ended in the catch, after redis.quit() threw
C23_Witness ==
  /\ proc.pc = "exited"
  /\ proc.signal = "SIGINT"
  /\ proc.threw = "redisQuit"
  /\ proc.code = 1

----------------------------------------------------------------------------
(* C24: the actuator after a shutdown *)

\* C24: when a shutdown started by SIGTERM or SIGINT has finished with all its
\* closes done, no actuator channel is on in the store.
C24_ChannelsOffAfterShutdown ==
  (proc.pc = "exited" /\ proc.signal # "none" /\ proc.code = 0) => aktuator = {}

----------------------------------------------------------------------------
(* C25: several entries of one minute *)

\* the entries after k that match the minute of poll i and are not marked fired
StillToAdd(i, k, ledger) ==
  {m \in (k + 1)..NSrc : /\ SchedMatches(m, sched[i].t)
                         /\ SchedJob(m, sched[i].t).id \notin ledger}

\* the add of an entry was answered, with success or with a throw: the poll
\* goes on to the next matching entry
PollGoesOn ==
  \A i \in 1..SchedInvs :
    (sched[i].pc = "addReply" /\ sched'[i] # sched[i])
      => LET todo == StillToAdd(i, sched[i].idx, lastScheduleCheck')
         IN  IF todo = {} THEN sched'[i].pc = "idle"
             ELSE sched'[i].pc = "add" /\ sched'[i].idx = Min(todo)

\* an accepted job is the adding entry's own and waits behind the jobs already waiting
EnqueuedLast ==
  \A a \in enqLog' \ enqLog :
    /\ waiting' = Append(waiting, a.job)
    /\ \E i \in 1..SchedInvs :
         /\ sched[i].pc = "add" /\ sched'[i].pc = "addReply"
         /\ a.job = SchedJob(sched[i].idx, sched[i].t)
         /\ sched[i].idx <= Len(kontrol.jadwal) => a.job.name = kontrol.jadwal[sched[i].idx].key

\* the worker takes the job that has waited longest, and only when it runs none
TakenFirst ==
  runs' # runs
    => /\ Busy = {}
       /\ runs' = Append(runs, Head(waiting).id)
       /\ waiting' = Tail(waiting)

\* C25: every active valid entry that matches the minute of a poll gets its own
\* add in that poll, whether the adds before it succeeded or threw; each accepted
\* job is queued behind the earlier ones and the worker runs them one at a time
\* in that order.
C25_SameMinuteEntries == [][PollGoesOn /\ EnqueuedLast /\ TakenFirst]_vars

\* the add of jadwal_1 threw and jadwal_2 was enqueued in the same poll; a later
\* poll of the minute enqueued jadwal_1: jadwal_2 ran first, then jadwal_1
C25_Witness ==
  /\ Len(runs) = 2
  /\ runs[1] = <<"jadwal_2", DateKey(0), T2359>>
  /\ runs[2] = <<"jadwal_1", DateKey(0), T2359>>
  /\ \E a, b \in enqLog : a.job.id = runs[1] /\ b.job.id = runs[2] /\ a.at = 0 /\ b.at > 0

----------------------------------------------------------------------------
(* C26: the channels that are on while a job waits *)

\* C26: while a job is in its wait phase, the channels that are on in the store
\* are exactly the channels of that job.
C26_OnlyOwnChannelsOn ==
  \A s \in Busy : exec[s].pc \in {"sleep", "smartRead"} => aktuator = exec[s].updates

----------------------------------------------------------------------------
(* C27: the order in which waiting jobs are taken *)

\* C27: the job the worker takes is a manual job (priority 10) if one waits,
\* else a threshold job (priority 1) if one waits, else a scheduled job (none):
\* no job it leaves waiting has a larger priority number than the one it takes.
C27_LargerPriorityTakenFirst ==
  [][runs' # runs
       => \A k \in 1..Len(waiting') : waiting'[k].priority <= Head(waiting).priority]_vars

----------------------------------------------------------------------------
(* C28: the job of a threshold entry *)

\* the pots of entry m that need water now, given the cooldowns as they will be
MarkedPots(m) ==
  {pot \in Range(kontrol.thresholds[m].e.pot_aktif) :
     NeedsWater(kontrol.thresholds[m].e, pot, now, lastWateringTime')}

\* entry m gets no job: it is not active, or none of its pots needs water
NoJobFor(m) == ~kontrol.thresholds[m].e.aktif \/ MarkedPots(m) = {}

\* the entry from which check j goes on in this step, 0 when it does not
LoopFrom(j) ==
  IF thresh[j].pc = "addReply" /\ thresh[j].addOk THEN thresh[j].idx + 1
  ELSE IF thresh[j].pc = "fetch" /\ thresh'[j].pc = "add" THEN 1
  ELSE 0

OneJobPerEntryStep ==
  \A j \in 1..ThreshInvs :
    (LoopFrom(j) > 0 /\ thresh'[j] # thresh[j]) =>
      IF thresh'[j].pc = "add"
      THEN LET k == thresh'[j].idx
               threshold == kontrol.thresholds[k].e
               job == thresh'[j].job
           IN  /\ k >= LoopFrom(j)
               /\ \A m \in LoopFrom(j)..(k - 1) : NoJobFor(m)
               /\ threshold.aktif
               /\ MarkedPots(k) # {} /\ MarkedPots(k) \subseteq 1..5
               /\ Range(job.potNumbers) = MarkedPots(k)
               /\ job.name = kontrol.thresholds[k].key
               /\ job.smartMode = threshold.smart_mode
               /\ job.batasAtas =
                    (IF threshold.batas_atas # 0 THEN threshold.batas_atas ELSE 70)
               /\ job.duration = (IF threshold.durasi # 0 THEN threshold.durasi ELSE 600)
      ELSE /\ thresh'[j].pc = "idle"
           /\ \A m \in LoopFrom(j)..Len(kontrol.thresholds) : NoJobFor(m)

----------------------------------------------------------------------------
(* C29: which pots are marked as needing water *)

\* the moisture of the pot is under both bounds of the entry (30 and 70 when the
\* entry has none) and the pot was not stamped in the 120 s before now
DryAndRested(threshold, pot) ==
  LET lowerBound == IF threshold.batas_bawah # 0 THEN threshold.batas_bawah ELSE 30
      upperBound == IF threshold.batas_atas # 0 THEN threshold.batas_atas ELSE 70
      stamp == lastWateringTime'[pot]
  IN  /\ Soil(pot) < upperBound
      /\ Soil(pot) < lowerBound
      /\ ~(stamp # 0 /\ DateNow(now) - stamp < 120000)

MarkingStep ==
  \A j \in 1..ThreshInvs :
    (LoopFrom(j) > 0 /\ thresh'[j] # thresh[j]) =>
      LET last == IF thresh'[j].pc = "add" THEN thresh'[j].idx
                  ELSE Len(kontrol.thresholds)
      IN  \A m \in LoopFrom(j)..last :
            \A pot \in Range(kontrol.thresholds[m].e.pot_aktif) \cap Pots :
              LET threshold == kontrol.thresholds[m].e
                  watered == /\ thresh'[j].pc = "add" /\ thresh'[j].idx = m
                             /\ pot \in Range(thresh'[j].job.potNumbers)
              IN  /\ (threshold.aktif /\ DryAndRested(threshold, pot)) <=> watered
                  /\ Soil(pot) >= batasBawah(threshold) => ~watered

\* C29: in a threshold check a pot of an active entry is put into the entry's
\* job if and only if its moisture is below the upper bound and below the lower
\* bound and the pot is not within its 120 s cooldown; a pot at or above the
\* lower bound is never watered by the entry.
C29_MarkedIffDryAndRested == [][MarkingStep]_vars

\* a second check has ended: pot 1 is still at 20, its cooldown is running, and
\* the only job for threshold_1 is the one of the first check
C29_Witness ==
  /\ data = D_dry /\ kontrol = K_thresh
  /\ calls.thresh = 2 /\ now > 0
  /\ \A j \in 1..ThreshInvs : thresh[j].pc = "idle"
  /\ lastWateringTime[1] # 0
  /\ \A a \in enqLog : a.job.name = "threshold_1" => a.at = 0
  /\ \E a \in enqLog : a.job.name = "threshold_1"

----------------------------------------------------------------------------
(* C30: the channels of the on write and of the off write *)

\* mosvet_1 for the water pump, mosvet_2 for the fertilizer pump, mosvet_(N+2)
\* for pot N in 1..5
ChannelsOf(job) ==
  {c \in 1..2 : (c = 1 /\ job.pompaAir) \/ (c = 2 /\ job.pompaPupuk)}
    \cup {c \in 3..7 : \E k \in 1..Len(job.potNumbers) : job.potNumbers[k] = c - 2}

WriteStep ==
  \A s \in Slots :
    /\ (exec[s].pc = "turnOn" /\ exec'[s].pc \notin {"turnOn", "safety"})
         => aktuator' = aktuator \cup ChannelsOf(exec[s].job)
    /\ (exec[s].pc = "turnOff" /\ exec'[s].pc = "logRead")
         => aktuator' = aktuator \ ChannelsOf(exec[s].job)

\* C30: the on write sets to true mosvet_1 if pumpWater, mosvet_2 if
\* pumpFertilizer and mosvet_(N+2) for each pot N in 1..5 of the job, and the off
\* write of the success path sets exactly these to false; both leave every other
\* channel as it is, and a pot number outside 1..5 stands for no channel.
C30_OffWriteMatchesOnWrite == [][WriteStep]_vars

\* the job with pots 0, 2, 6 and the fertilizer pump has been turned off while
\* mosvet_1 and mosvet_3, left on by the failed job before it, are still on
C30_Witness ==
  /\ Len(events) >= 3
  /\ events[3] = <<"off", OddSample.id>>
  /\ aktuator = {1, 3}

----------------------------------------------------------------------------
(* C31: when a smart job turns its channels off *)

\* every pot of the job reads at or above the job's upper bound in /data
TargetRead(job) ==
  /\ data.exists
  /\ \A k \in 1..Len(job.potNumbers) : Soil(job.potNumbers[k]) >= job.batasAtas

SmartStep ==
  \A s \in Slots :
    IsSmart(exec[s].job) =>
      \* a sensor poll returns: off at once if the read succeeded and every
      \* pot is at the target, else the wait goes on
      /\ exec[s].pc = "smartRead" /\ exec'[s] # exec[s]
           => IF events' = events /\ TargetRead(exec[s].job)
              THEN exec'[s].pc = "turnOff" /\ exec'[s].offAt = now
              ELSE exec'[s].pc = "sleep"
      \* the wait ends without such a poll only at the deadline
      /\ exec[s].pc = "sleep" /\ exec'[s].pc = "turnOff"
           => now - exec[s].startTime >= exec[s].job.duration * 1000
      \* while the job waits its channels are on
      /\ exec'[s].pc \in {"sleep", "smartRead"} => exec'[s].updates \subseteq aktuator'

\* C31: a smart job issues its off write right after the first sensor poll that
\* reads every pot of the job at or above the upper bound; before such a poll
\* its channels stay on, and the wait ends otherwise only when the duration has
\* passed.
C31_SmartOffAtTarget == [][SmartStep]_vars

\* the job for pots 2 and 3 (6 s) polled with pot 2 at 50, went on waiting, and
\* after the soil got wet turned off at its second poll, before the 6 s were over
C31_Witness ==
  \E s \in Busy :
    /\ exec[s].job = SmartMixed
    /\ exec[s].pc = "turnOff"
    /\ exec[s].reached
    /\ exec[s].offAt - exec[s].startTime >= 5000
    /\ exec[s].offAt - exec[s].startTime < 6000

----------------------------------------------------------------------------
(* C32: the purge of the TriggerLedger *)

\* poll i ends in this step, in whatever way
PollEnds(i) == sched[i].pc \in {"fetch", "addReply"} /\ sched'[i].pc = "idle"

\* poll i ends in this step by reaching the end of its loops
LoopsEnd(i) ==
  /\ PollEnds(i)
  /\ sched[i].pc = "fetch" => (~FetchThrew /\ kontrol.exists /\ kontrol.waktu)

\* C32 (as stated): when a poll ends after the date key has changed, the
\* TriggerLedger holds no entry of another date than the current one.
C32_NoOldDateAfterPoll ==
  [][\A i \in 1..SchedInvs :
       (PollEnds(i) /\ DateKey(now) # DateKey(0))
         => \A key \in lastScheduleCheck' : key[2] = DateKey(now)]_vars

\* C32 (amended): when a poll has read the configuration with the time mode on
\* and has run to the end of its loops, the TriggerLedger holds only entries of
\* the date key that poll computed.
C32_NoOldDateAfterCompletedPoll ==
  [][\A i \in 1..SchedInvs :
       LoopsEnd(i)
         => \A key \in lastScheduleCheck' :
              key[2] = DateKey(IF sched[i].pc = "fetch" THEN now ELSE sched[i].t)]_vars

\* after midnight the ledger holds entries, none of the day before, although a
\* job of the day before was enqueued (and marked)
C32_Witness ==
  /\ DateKey(now) # DateKey(0)
  /\ lastScheduleCheck # {}
  /\ \A key \in lastScheduleCheck : key[2] = DateKey(now)
  /\ \E a \in enqLog : a.job.id[2] = DateKey(0)

----------------------------------------------------------------------------
(* C33: history records *)

\* C33: a history record, once written, is in /history ever after: no later
\* history write replaces or removes it.
C33_HistoryRecordsStay == [][\A r \in history : r \in history']_vars

----------------------------------------------------------------------------
(* C34: entries that the validation skips *)

\* entry m is an object, is not switched off, has the time of day t as its time
\* and a pot list that is an array and not empty
Eligible(m, t) ==
  LET entry == kontrol.jadwal[m].e
  IN  /\ entry.valid
      /\ entry.aktif \in {"true", "missing"}
      /\ entry.waktu # <<>> /\ entry.waktu = CurrentTime(t)
      /\ entry.pots_array /\ entry.pot_aktif # <<>>

\* the named entry at which poll i starts or goes on in this step, 0 when it does not
NamedFrom(i) ==
  IF sched[i].pc = "addReply" THEN sched[i].idx + 1
  ELSE IF SchedFetchEnds(i) /\ ~FetchThrew /\ kontrol.exists /\ kontrol.waktu THEN 1
  ELSE 0

ValidationStep ==
  \A i \in 1..SchedInvs :
    (NamedFrom(i) > 0 /\ sched'[i] # sched[i]) =>
      LET t == IF sched[i].pc = "fetch" THEN now ELSE sched[i].t
          next == IF sched'[i].pc = "add" /\ sched'[i].idx <= Len(kontrol.jadwal)
                  THEN sched'[i].idx ELSE Len(kontrol.jadwal) + 1
      IN  /\ \A m \in NamedFrom(i)..(next - 1) :
               m <= Len(kontrol.jadwal)
                 => (~Eligible(m, t) \/ SchedJob(m, t).id \in lastScheduleCheck')
          /\ next <= Len(kontrol.jadwal) => Eligible(next, t)

\* C34: a poll adds a job for an entry only if the entry is an object, is not
\* switched off (no aktif field counts as on), has a time, which is the time of
\* day, and a pot list that is an array and not empty; and the entries it
\* passes over on its way to the next add are all entries that fail this test
\* or are marked fired: an entry that is skipped does not end the poll.
C34_InvalidEntriesSkipped == [][ValidationStep]_vars

\* the job of jadwal_6, the only entry that passes (it has no aktif field), was
\* accepted from a poll that went over five entries failing the validation
C34_Witness ==
  /\ kontrol = K_skip
  /\ Cardinality(enqLog) = 1
  /\ \E a \in enqLog : a.job.name = "jadwal_6" /\ a.job.potNumbers = <<1, 2, 3>>

----------------------------------------------------------------------------
(* C35: the ledger is marked by accepted adds only *)

\* the id whose add poll i is waiting for
AddedId(i) == SchedJob(sched[i].idx, sched[i].t).id

\* a key enters the ledger in the step that takes the reply of its accepted add
MarkedBySuccessStep ==
  \A key \in lastScheduleCheck' \ lastScheduleCheck :
    \E i \in 1..SchedInvs :
      /\ sched[i].pc = "addReply" /\ sched'[i] # sched[i]
      /\ sched[i].addOk /\ AddedId(i) = key
      /\ \E a \in enqLog : a.job.id = key

\* the reply of a failed add leaves its key as it was; that of an accepted one marks it
ReplyStep ==
  \A i \in 1..SchedInvs :
    (sched[i].pc = "addReply" /\ sched'[i] # sched[i])
      => IF sched[i].addOk
         THEN AddedId(i) \in lastScheduleCheck'
         ELSE AddedId(i) \in lastScheduleCheck' <=> AddedId(i) \in lastScheduleCheck

\* a poll that has read the configuration goes to the add of the first entry
\* of its minute that is not marked
UnmarkedTriedStep ==
  \A i \in 1..SchedInvs :
    (SchedFetchEnds(i) /\ ~FetchThrew /\ ModeOn(kontrol.waktu))
      => LET todo == {m \in 1..NSrc : /\ SchedMatches(m, now)
                                      /\ SchedJob(m, now).id \notin lastScheduleCheck}
         IN  todo # {} => /\ sched'[i].pc = "add" /\ sched'[i].idx = Min(todo)
                          /\ sched'[i].t = now

\* C35: a job id enters the TriggerLedger only in the step that receives the
\* reply of its accepted add; the reply of a failed add leaves the id as it
\* was, and every poll that reads the configuration in a minute attempts the
\* add of the first matching entry whose id is not marked.
C35_MarkedOnlyAfterAcceptedAdd == [][MarkedBySuccessStep /\ ReplyStep /\ UnmarkedTriedStep]_vars

\* no read has failed and no add was accepted: the first poll's adds failed, and
\* a second poll of the same minute is at the add of jadwal_1 again
C35_Witness ==
  /\ kontrol = K_same
  /\ calls.sched = 2 /\ calls.failedAt = -1
  /\ enqLog = {} /\ lastScheduleCheck = {}
  /\ \E i \in 1..SchedInvs :
       /\ sched[i].pc = "add" /\ sched[i].idx = 1
       /\ CurrentTime(sched[i].t) = T2359 /\ sched[i].t > 0
       /\ \A x \in 1..SchedInvs \ {i} : sched[x].pc = "idle"

----------------------------------------------------------------------------
(* C36: a pot of a pending threshold job *)

IsThreshold(job) == job.type = <<"sensor_threshold">>

\* the threshold jobs that wait in the queue or are being executed
PendingThreshold == {job \in Range(waiting) \cup {exec[s].job : s \in Busy} : IsThreshold(job)}

NoSecondJobStep ==
  \A b \in enqLog' \ enqLog :
    IsThreshold(b.job)
      => \A a \in PendingThreshold :
           Range(a.potNumbers) \cap Range(b.job.potNumbers) = {}

\* C36: no threshold job that includes pot p is accepted by the queue while a
\* threshold job that includes p is waiting or being executed (the reading of
\* p stays below the lower bound, the job has any duration up to the default
\* of 600 s).
C36_NoSecondJobWhilePending == [][NoSecondJobStep]_vars

----------------------------------------------------------------------------
(* C37: no matching minute is skipped *)

\* the instants of the model's clock at which a minute of the wall clock begins
MinuteStarts == {m * msPerMinute : m \in 0..(MaxTimePoll \div msPerMinute)}

\* every poll that was called before instant t has returned
PollsBeforeDone(t) ==
  \A i \in 1..SchedInvs : sched[i].pc # "idle" => (sched[i].pc = "fetch" /\ sched[i].t >= t)

\* C37: with the time mode on and every config read answered, an entry that
\* is active and valid has its job of the day accepted by the queue once the
\* minute of its time has passed with the worker running and the polls called
\* before the end of that minute have returned (polls every 60 s; each reads
\* the clock when its config fetch has returned, up to 13 s after the call).
C37_EveryMatchingMinutePolled ==
  \A k \in 1..Len(kontrol.jadwal) : \A M \in MinuteStarts :
    (/\ ModeOn(kontrol.waktu)
     /\ SchedMatches(k, M)
     /\ now >= M + msPerMinute
     /\ PollsBeforeDone(M + msPerMinute))
    => \E a \in enqLog : a.job.id = <<kontrol.jadwal[k].key, DateKey(M), CurrentTime(M)>>

----------------------------------------------------------------------------
(* C38: a restart inside the matching minute *)

\* the id is the id of a schedule job: entry name, date key, time of day
IsScheduleId(id) == id[3] # <<>>

\* C38: no job of a schedule entry is executed twice on one day, also when the
\* process is restarted inside the matching minute (the TriggerLedger of the
\* new process is empty) after the first job has completed and left the queue.
C38_RestartKeepsOncePerDay ==
  \A m, n \in DOMAIN runs :
    (runs[m] = runs[n] /\ IsScheduleId(runs[m])) => m = n

----------------------------------------------------------------------------
(* C39: a failure of the history write *)

\* the processor of slot s, in logHistory after its off write went through,
\* takes a step
LogStep(s) == exec[s].pc \in {"logRead", "logSet"} /\ exec'[s] # exec[s]

HistoryFailureStep ==
  \A s \in Slots :
    LogStep(s)
      => /\ exec'[s].pc \in {"logSet", "idle"}
         /\ exec'[s].pc = "logSet" => exec[s].pc = "logRead"
         /\ aktuator' = aktuator
         /\ failed' = failed
         /\ exec'[s].pc = "idle"
              => /\ events'[Len(events')] = <<"completed", exec[s].job.id>>
                 /\ \A pot \in Range(exec[s].job.potNumbers) \cap Pots :
                      lastWateringTime'[pot] = DateNow(now)

\* C39: once the on write and the off write of a job have succeeded, the job
\* is reported completed and the cooldown timestamp of each of its pots is
\* set, whether the read of the sensor snapshot and the write of the history
\* record succeed or fail; no write to the actuators follows the off write and
\* the job does not enter the failed set.
C39_HistoryFailureKeepsOutcome == [][HistoryFailureStep]_vars

\* a job has completed without a history record: its pots are stamped and it
\* is not among the failed jobs
C39_Witness ==
  \E n \in DOMAIN events :
    /\ events[n][1] = "completed"
    /\ \A m \in DOMAIN events : events[m] # <<"hist", events[n][2]>>
    /\ events[n][2] \notin Range(failed)
    /\ events[n][2][1] = "jadwal_1" /\ lastWateringTime[1] # 0
    /\ history = {}

----------------------------------------------------------------------------
(* C40: readings that are absent or no numbers *)

\* the reading is absent or is not a number
NotANumber(v) == v < 0

\* the reading is absent or has no digits at its start
NoLeadingDigits(v) == v \in {-1, -2}

\* the entry at which check j starts or goes on with its loop in this step, 0
\* when it does not: the config fetch has returned with the sensor mode on, or
\* an add has returned
CheckFrom(j) ==
  IF thresh[j].pc = "addReply" /\ thresh[j].addOk THEN thresh[j].idx + 1
  ELSE IF ThreshFetchEnds(j) /\ ~FetchThrew /\ ModeOn(kontrol.otomatis) THEN 1
  ELSE 0

\* a check passes over or stops at the entries of its loop: a pot of an active
\* entry whose reading satisfies Unread and that was never stamped is in the
\* entry's job
UnreadMarked(Unread(_)) ==
  \A j \in 1..ThreshInvs :
    (CheckFrom(j) > 0 /\ thresh'[j] # thresh[j]) =>
      LET last == IF thresh'[j].pc = "add" THEN thresh'[j].idx
                  ELSE Len(kontrol.thresholds)
      IN  \A m \in CheckFrom(j)..last :
            \A pot \in Range(kontrol.thresholds[m].e.pot_aktif) \cap Pots :
              (/\ kontrol.thresholds[m].e.aktif
               /\ Unread(data.soil[pot])
               /\ lastWateringTime'[pot] = 0)
              => /\ thresh'[j].pc = "add" /\ thresh'[j].idx = m
                 /\ pot \in Range(thresh'[j].job.potNumbers)

\* a smart job with a pot whose reading satisfies Unread goes on after every
\* sensor poll and turns off only at its deadline
UnreadNeverReached(Unread(_)) ==
  \A s \in Slots :
    (/\ IsSmart(exec[s].job)
     /\ \E pot \in Range(exec[s].job.potNumbers) \cap Pots : Unread(data.soil[pot]))
    => /\ (exec[s].pc = "smartRead" /\ exec'[s] # exec[s]) => exec'[s].pc = "sleep"
       /\ (exec[s].pc \in {"sleep", "smartRead"} /\ exec'[s].pc = "turnOff")
            => now - exec[s].startTime >= exec[s].job.duration * 1000

NotANumberStep == UnreadMarked(NotANumber) /\ UnreadNeverReached(NotANumber)
NoLeadingDigitsStep == UnreadMarked(NoLeadingDigits) /\ UnreadNeverReached(NoLeadingDigits)

\* C40 as stated: a pot whose reading is absent or is not a number is taken as
\* 0 %: unstamped, it is marked by the check of an active entry, and a smart
\* job that holds it turns off only at its deadline.
C40_NonNumericReadsAsZero == [][NotANumberStep]_vars

\* C40: a pot whose reading is absent or has no digits at its start is taken
\* as 0 %: unstamped, it is marked by the check of an active entry, and a smart
\* job that holds it goes on after every sensor poll and turns off only at its
\* deadline.
C40_UnparsedReadsAsZero == [][NoLeadingDigitsStep]_vars

\* the smart job of threshold_1 holds pot 1 alone, whose reading is text (pot 2
\* reads "80%"), and has turned off at its deadline; the job of threshold_2
\* holds pot 5, which has no reading
C40_Witness ==
  /\ data = D_text
  /\ \E s \in Busy :
       /\ exec[s].job.name = "threshold_1" /\ exec[s].job.potNumbers = <<1>>
       /\ exec[s].pc = "turnOff" /\ ~exec[s].reached
       /\ exec[s].offAt - exec[s].startTime = exec[s].job.duration * 1000
  /\ \E a \in enqLog : a.job.name = "threshold_2" /\ 5 \in Range(a.job.potNumbers)

====
